---- MODULE Spec2Model ----
(***************************************************************************)
(* Transcript acquisition and note synthesis pipeline of the               *)
(* generate-notes edge function (supabase/functions/generate-notes).       *)
(*                                                                         *)
(* Text is held run-length encoded: a string is a sequence of runs         *)
(* [c |-> character, n |-> repetitions], adjacent runs having different    *)
(* characters and n >= 1.  Every string operation below is computed on     *)
(* that form, so that transcripts of tens of thousands of characters keep  *)
(* their real length.                                                      *)
(***************************************************************************)
EXTENDS Integers, Sequences, FiniteSets, TLC

\* ------------------------------------------------------------------ bounds
NumRequests == 2
NumVideos == 2

Requests == 1..NumRequests
VideoIds == 1..NumVideos

\* ----------------------------------------------------------- JS primitives
Null == [null |-> TRUE]

Ws == {" ", "\n", "\t"}

Run(ch, k) == IF k <= 0 THEN <<>> ELSE <<[c |-> ch, n |-> k]>>

RECURSIVE Norm(_)
Norm(s) ==
  IF Len(s) <= 1 THEN s
  ELSE LET half == Len(s) \div 2
           left == Norm(SubSeq(s, 1, half))
           right == Norm(SubSeq(s, half + 1, Len(s)))
       IN IF left[Len(left)].c = right[1].c
          THEN SubSeq(left, 1, Len(left) - 1)
                 \o <<[c |-> right[1].c, n |-> left[Len(left)].n + right[1].n]>>
                 \o Tail(right)
          ELSE left \o right

Cat(s, t) == Norm(s \o t)

RECURSIVE StrLen(_)
StrLen(s) == IF s = <<>> THEN 0 ELSE Head(s).n + StrLen(Tail(s))

RECURSIVE DropLeadingWs(_)
DropLeadingWs(s) ==
  IF s = <<>> THEN <<>>
  ELSE IF Head(s).c \in Ws THEN DropLeadingWs(Tail(s)) ELSE s

RECURSIVE DropTrailingWs(_)
DropTrailingWs(s) ==
  IF s = <<>> THEN <<>>
  ELSE IF s[Len(s)].c \in Ws THEN DropTrailingWs(SubSeq(s, 1, Len(s) - 1)) ELSE s

\* String.prototype.trim
Trim(s) == DropTrailingWs(DropLeadingWs(s))

\* s.replace(/\s+/g, " ")
RECURSIVE CollapseFrom(_, _)
CollapseFrom(s, prevWs) ==
  IF s = <<>> THEN <<>>
  ELSE IF Head(s).c \in Ws
       THEN (IF prevWs THEN <<>> ELSE Run(" ", 1)) \o CollapseFrom(Tail(s), TRUE)
       ELSE <<Head(s)>> \o CollapseFrom(Tail(s), FALSE)

CollapseWs(s) == CollapseFrom(s, FALSE)

\* s.replace(/\n/g, " ")
NewlinesToSpaces(s) ==
  Norm([i \in 1..Len(s) |-> IF s[i].c = "\n" THEN [c |-> " ", n |-> s[i].n] ELSE s[i]])

\* s.replace(pat, rep) with the g flag, for a literal pattern in which no two
\* neighbouring characters are equal (true of every entity name below): an
\* occurrence is a run ending in pat[1], single-character runs for the inner
\* characters, and a run starting with the last character.
MatchesAt(s, pat) ==
  /\ Len(s) >= Len(pat)
  /\ s[1].c = pat[1]
  /\ \A k \in 2..(Len(pat) - 1) : s[k] = [c |-> pat[k], n |-> 1]
  /\ s[Len(pat)].c = pat[Len(pat)]

RECURSIVE ReplaceRuns(_, _, _)
ReplaceRuns(s, pat, rep) ==
  IF s = <<>> THEN <<>>
  ELSE IF MatchesAt(s, pat)
       THEN Run(pat[1], s[1].n - 1) \o Run(rep, 1)
              \o ReplaceRuns(Run(pat[Len(pat)], s[Len(pat)].n - 1)
                               \o SubSeq(s, Len(pat) + 1, Len(s)), pat, rep)
       ELSE <<Head(s)>> \o ReplaceRuns(Tail(s), pat, rep)

ReplaceAll(s, pat, rep) == Norm(ReplaceRuns(s, pat, rep))

\* ------------------------------------------------------ timed-text parsing
Digits == {"0", "1", "2", "3", "4", "5", "6", "7", "8", "9"}

DigitVal(ch) ==
  CASE ch = "0" -> 0 [] ch = "1" -> 1 [] ch = "2" -> 2 [] ch = "3" -> 3
    [] ch = "4" -> 4 [] ch = "5" -> 5 [] ch = "6" -> 6 [] ch = "7" -> 7
    [] ch = "8" -> 8 [] ch = "9" -> 9

\* String.fromCharCode, on the character codes the model's texts use; any
\* other code unit is kept as one opaque character named by its code.
CharOfCode(code) ==
  LET u == code % 65536 IN
  CASE u = 9 -> "\t" [] u = 10 -> "\n" [] u = 32 -> " " [] u = 38 -> "&"
    [] u = 39 -> "'" [] u = 97 -> "a" [] u = 98 -> "b"
    [] OTHER -> "U+" \o ToString(u)

\* index of the first run at or after i that is not a run of digits
RECURSIVE DigitsEnd(_, _)
DigitsEnd(s, i) ==
  IF i <= Len(s) /\ s[i].c \in Digits THEN DigitsEnd(s, i + 1) ELSE i

\* Number(num) of the digit runs s[i..j]
RECURSIVE DigitsValue(_, _, _, _)
DigitsValue(s, i, j, acc) ==
  IF i > j THEN acc
  ELSE IF s[i].n = 0 THEN DigitsValue(s, i + 1, j, acc)
  ELSE DigitsValue([s EXCEPT ![i].n = @ - 1], i, j, acc * 10 + DigitVal(s[i].c))

\* s.replace(/&#(\d+);/g, (_, num) => String.fromCharCode(Number(num)))
RECURSIVE NumericEntityRuns(_)
NumericEntityRuns(s) ==
  IF s = <<>> THEN <<>>
  ELSE LET e == DigitsEnd(s, 3) IN
       IF /\ Len(s) >= 4
          /\ s[1].c = "&"
          /\ s[2] = [c |-> "#", n |-> 1]
          /\ e > 3
          /\ e <= Len(s)
          /\ s[e].c = ";"
       THEN Run("&", s[1].n - 1)
              \o Run(CharOfCode(DigitsValue(s, 3, e - 1, 0)), 1)
              \o NumericEntityRuns(Run(";", s[e].n - 1) \o SubSeq(s, e + 1, Len(s)))
       ELSE <<Head(s)>> \o NumericEntityRuns(Tail(s))

NumericEntities(s) == Norm(NumericEntityRuns(s))

decodeXmlEntities(input) ==
  LET s1 == ReplaceAll(input, <<"&", "a", "m", "p", ";">>, "&")
      s2 == ReplaceAll(s1, <<"&", "q", "u", "o", "t", ";">>, "\"")
      s3 == ReplaceAll(s2, <<"&", "#", "3", "9", ";">>, "'")
      s4 == ReplaceAll(s3, <<"&", "l", "t", ";">>, "<")
      s5 == ReplaceAll(s4, <<"&", "g", "t", ";">>, ">")
      s6 == NewlinesToSpaces(s5)
      s7 == NumericEntities(s6)
  IN Trim(CollapseWs(s7))

\* A timed-text body is the sequence of its <text start=".." dur="..">payload
\* </text> elements, in document order, as the scanning regular expression
\* finds them: [start, dur, payload].
RECURSIVE ParseElements(_, _, _)
ParseElements(elems, segments, full) ==
  IF elems = <<>> THEN [transcript |-> Trim(full), segments |-> segments]
  ELSE LET e == Head(elems)
           text == decodeXmlEntities(e.payload)
       IN IF text = <<>>
          THEN ParseElements(Tail(elems), segments, full)
          ELSE ParseElements(Tail(elems),
                             Append(segments, [text |-> text, start |-> e.start, duration |-> e.dur]),
                             Cat(Cat(full, text), Run(" ", 1)))

parseTimedTextXml(xml) == ParseElements(xml, <<>>, <<>>)

\* ------------------------------------------------- upstream response bodies
MinSegments == 10
MinTranscriptChars == 200
MinBodyChars == 20

Elem(start, dur, payload) == [start |-> start, dur |-> dur, payload |-> payload]

\* n elements, element i starting at (i-1)*gap and lasting gap seconds
UniformBody(n, gap, payload) == [i \in 1..n |-> Elem((i - 1) * gap, gap, payload)]

\* 11 segments, 208 characters
BodyA == UniformBody(MinSegments + 1, 5, Run("a", 18))

\* 12 segments, 251 characters
BodyB == UniformBody(MinSegments + 2, 7, Run("b", 20))

\* 10 segments, 309 characters
BodyTenSegments == UniformBody(MinSegments, 5, Run("a", 30))

\* 11 segments, exactly 200 characters
BodyTwoHundredChars ==
  [i \in 1..(MinSegments + 1) |->
     Elem((i - 1) * 5, 5, Run("a", IF i = MinSegments + 1 THEN 20 ELSE 17))]

\* 11 elements, one of them blank: 10 segments
BodyOneBlank ==
  [i \in 1..(MinSegments + 1) |->
     Elem((i - 1) * 5, 5, IF i = 3 THEN Run(" ", 2) \o Run("\n", 1) ELSE Run("a", 30))]

\* 11 segments of "aaaaaaaaaaaaaa&amp;": 219 characters raw, 175 decoded
BodyEntities ==
  UniformBody(MinSegments + 1, 5,
              Run("a", 14) \o Run("&", 1) \o Run("a", 1) \o Run("m", 1) \o Run("p", 1) \o Run(";", 1))

\* 12 segments of 2100 characters: longer than the direct-mode ceiling
BodyLong == UniformBody(MinSegments + 2, 60, Run("a", 2100))

\* 12 segments, 50000 characters once formatted: three chunks
BodyFiftyThousand ==
  [i \in 1..(MinSegments + 2) |->
     Elem((i - 1) * 60, 60, Run("a", IF i = MinSegments + 2 THEN 5982 ELSE 4000))]

Bodies ==
  {<<>>, BodyA, BodyB, BodyTenSegments, BodyTwoHundredChars, BodyOneBlank, BodyEntities, BodyLong,
   BodyFiftyThousand}

RECURSIVE NumDigits(_)
NumDigits(k) == IF k < 10 THEN 1 ELSE 1 + NumDigits(k \div 10)

\* text.length of a body: the characters of its <text start="S" dur="D">
\* payload</text> elements (29 characters of markup each, plus the digits),
\* the enclosing markup not counted.
RECURSIVE XmlLength(_)
XmlLength(xml) ==
  IF xml = <<>> THEN 0
  ELSE 29 + NumDigits(Head(xml).start) + NumDigits(Head(xml).dur)
          + StrLen(Head(xml).payload) + XmlLength(Tail(xml))

\* what `await fetch(...)` (through fetchWithRetry) gives a strategy: a
\* response, or a rejected promise
NetworkError == [threw |-> TRUE]
Threw == [threw |-> TRUE]

HttpOk(res) == res.status >= 200 /\ res.status <= 299

NotFound == [status |-> 404, body |-> <<>>]

TimedTextResponses ==
  {[status |-> 200, body |-> b] : b \in Bodies} \cup {NotFound, NetworkError}

\* language codes are short plain sequences of characters
LangEn == <<"e", "n">>
LangEnUS == <<"E", "N", "-", "U", "S">>
LangFr == <<"f", "r">>

LowerChar(ch) ==
  CASE ch = "E" -> "e" [] ch = "N" -> "n" [] ch = "U" -> "u" [] ch = "S" -> "s"
    [] OTHER -> ch

\* lang.toLowerCase().startsWith("en")
StartsWithEn(lang) ==
  Len(lang) >= 2 /\ LowerChar(lang[1]) = "e" /\ LowerChar(lang[2]) = "n"

\* ------------------------------------------------------ fetch strategies
\* The loop of tryTimedTextDirect over its URLs (2 hosts x 4 permutations),
\* given the response each URL would produce, in loop order.
RECURSIVE tryTimedTextDirect(_)
tryTimedTextDirect(responses) ==
  IF responses = <<>> THEN Null
  ELSE LET res == Head(responses) IN
       IF res = NetworkError THEN Threw
       ELSE IF ~HttpOk(res) \/ XmlLength(res.body) < MinBodyChars
            THEN tryTimedTextDirect(Tail(responses))
            ELSE LET parsed == parseTimedTextXml(res.body) IN
                 IF Len(parsed.segments) > MinSegments /\ StrLen(parsed.transcript) > MinTranscriptChars
                 THEN [transcript |-> parsed.transcript,
                       segments |-> parsed.segments,
                       lang |-> LangEn,
                       source |-> "timedtext",
                       usedCache |-> FALSE]
                 ELSE tryTimedTextDirect(Tail(responses))

\* A track-list body is the sequence of its <track lang_code=".."/> elements;
\* its text.length counts 21 characters of markup per element plus the code.
RECURSIVE TrackListLength(_)
TrackListLength(tracks) ==
  IF tracks = <<>> THEN 0
  ELSE 21 + Len(Head(tracks).lang) + TrackListLength(Tail(tracks))

\* tracks.push only for elements with a non-empty language code
RECURSIVE ListedTracks(_)
ListedTracks(elems) ==
  IF elems = <<>> THEN <<>>
  ELSE IF Head(elems).lang = <<>> THEN ListedTracks(Tail(elems))
       ELSE <<Head(elems)>> \o ListedTracks(Tail(elems))

RECURSIVE listCaptionTracks(_)
listCaptionTracks(listResponses) ==
  IF listResponses = <<>> THEN [tracks |-> <<>>]
  ELSE LET res == Head(listResponses) IN
       IF res = NetworkError THEN Threw
       ELSE IF ~HttpOk(res) \/ TrackListLength(res.tracks) < MinBodyChars
            THEN listCaptionTracks(Tail(listResponses))
            ELSE LET tracks == ListedTracks(res.tracks) IN
                 IF Len(tracks) > 0 THEN [tracks |-> tracks]
                 ELSE listCaptionTracks(Tail(listResponses))

\* tracks.find((t) => t.lang.toLowerCase().startsWith("en")) || tracks[0]
RECURSIVE FindEnglish(_)
FindEnglish(tracks) ==
  IF tracks = <<>> THEN Null
  ELSE IF StartsWithEn(Head(tracks).lang) THEN Head(tracks)
       ELSE FindEnglish(Tail(tracks))

PreferredTrack(tracks) ==
  IF FindEnglish(tracks) # Null THEN FindEnglish(tracks) ELSE tracks[1]

\* the loop of tryTimedTextFromList over its two hosts for the chosen track
RECURSIVE FetchListedTrack(_, _)
FetchListedTrack(preferred, responses) ==
  IF responses = <<>> THEN Null
  ELSE LET res == Head(responses) IN
       IF res = NetworkError THEN Threw
       ELSE IF ~HttpOk(res) \/ XmlLength(res.body) < MinBodyChars
            THEN FetchListedTrack(preferred, Tail(responses))
            ELSE LET parsed == parseTimedTextXml(res.body) IN
                 IF Len(parsed.segments) > MinSegments /\ StrLen(parsed.transcript) > MinTranscriptChars
                 THEN [transcript |-> parsed.transcript,
                       segments |-> parsed.segments,
                       lang |-> preferred.lang,
                       source |-> "timedtext_list",
                       usedCache |-> FALSE]
                 ELSE FetchListedTrack(preferred, Tail(responses))

tryTimedTextFromList(listResponses, responses) ==
  LET listed == listCaptionTracks(listResponses) IN
  IF listed = Threw THEN Threw
  ELSE IF Len(listed.tracks) = 0 THEN Null
  ELSE FetchListedTrack(PreferredTrack(listed.tracks), responses)

\* A watch page is [status, marker, apiKey, player]: marker says the html
\* contains "ytInitialPlayerResponse", apiKey that it holds a quoted
\* INNERTUBE_API_KEY, player is the embedded player object reduced to
\* [captionTracks |-> its caption track array], or Null when the object is
\* missing, unparseable or has no caption list.  A caption track is
\* [languageCode, baseUrl]: the code (empty when absent) and whether the track
\* carries a URL.
WatchPageUsable(res) == HttpOk(res) /\ (res.marker \/ res.apiKey)

RECURSIVE fetchWatchHtml(_)
fetchWatchHtml(pageResponses) ==
  IF pageResponses = <<>> THEN Threw
  ELSE LET res == Head(pageResponses) IN
       IF res = NetworkError THEN Threw
       ELSE IF WatchPageUsable(res) THEN res
       ELSE fetchWatchHtml(Tail(pageResponses))

\* the internal player API answers [status, player], or the call rejects
fetchPlayerViaInnertube(res) ==
  IF res = NetworkError THEN Threw
  ELSE IF ~HttpOk(res) THEN Threw
  ELSE res.player

\* playerResponse?.captions?.playerCaptionsTracklistRenderer?.captionTracks?.length
HasTracks(player) == player # Null /\ Len(player.captionTracks) > 0

\* captionTracks.find((t) => t.languageCode?.toLowerCase().startsWith("en"))
RECURSIVE FindEnglishCaption(_)
FindEnglishCaption(tracks) ==
  IF tracks = <<>> THEN Null
  ELSE IF StartsWithEn(Head(tracks).languageCode)
       THEN Head(tracks)
       ELSE FindEnglishCaption(Tail(tracks))

SelectedTrack(tracks) ==
  IF FindEnglishCaption(tracks) # Null THEN FindEnglishCaption(tracks) ELSE tracks[1]

\* tryTranscriptFromWatchOrInnertube as it would be with `segments.length >= 10`
tryTranscriptFromWatchOrInnertubeTenSegments(pageResponses, innertube, trackResponse) ==
  LET html == fetchWatchHtml(pageResponses) IN
  IF html = Threw THEN Threw
  ELSE
    LET embedded == IF html.marker THEN html.player ELSE Null
        viaInnertube == ~HasTracks(embedded) /\ html.apiKey
        fetched == IF viaInnertube THEN fetchPlayerViaInnertube(innertube) ELSE Null
    IN
    IF fetched = Threw THEN Threw
    ELSE
      LET playerResponse == IF viaInnertube THEN fetched ELSE embedded IN
      IF ~HasTracks(playerResponse) THEN Null
      ELSE
        LET selectedTrack == SelectedTrack(playerResponse.captionTracks) IN
        IF ~selectedTrack.baseUrl THEN Null
        ELSE IF trackResponse = NetworkError THEN Threw
        ELSE IF ~HttpOk(trackResponse) THEN Null
        ELSE IF XmlLength(trackResponse.body) < MinBodyChars THEN Null
        ELSE
          LET parsed == parseTimedTextXml(trackResponse.body) IN
          IF Len(parsed.segments) >= MinSegments /\ StrLen(parsed.transcript) > MinTranscriptChars
          THEN [transcript |-> parsed.transcript,
                segments |-> parsed.segments,
                lang |-> selectedTrack.languageCode,
                source |-> IF viaInnertube THEN "innertube" ELSE "watch",
                usedCache |-> FALSE]
          ELSE Null

tryTranscriptFromWatchOrInnertube(pageResponses, innertube, trackResponse) ==
  LET html == fetchWatchHtml(pageResponses) IN
  IF html = Threw THEN Threw
  ELSE
    LET embedded == IF html.marker THEN html.player ELSE Null
        viaInnertube == ~HasTracks(embedded) /\ html.apiKey
        fetched == IF viaInnertube THEN fetchPlayerViaInnertube(innertube) ELSE Null
    IN
    IF fetched = Threw THEN Threw
    ELSE
      LET playerResponse == IF viaInnertube THEN fetched ELSE embedded IN
      IF ~HasTracks(playerResponse) THEN Null
      ELSE
        LET selectedTrack == SelectedTrack(playerResponse.captionTracks) IN
        IF ~selectedTrack.baseUrl THEN Null
        ELSE IF trackResponse = NetworkError THEN Threw
        ELSE IF ~HttpOk(trackResponse) THEN Null
        ELSE IF XmlLength(trackResponse.body) < MinBodyChars THEN Null
        ELSE
          LET parsed == parseTimedTextXml(trackResponse.body) IN
          IF Len(parsed.segments) > MinSegments /\ StrLen(parsed.transcript) > MinTranscriptChars
          THEN [transcript |-> parsed.transcript,
                segments |-> parsed.segments,
                lang |-> selectedTrack.languageCode,
                source |-> IF viaInnertube THEN "innertube" ELSE "watch",
                usedCache |-> FALSE]
          ELSE Null

\* ------------------------------------------------------------- formatter
DigitChar(d) ==
  CASE d = 0 -> "0" [] d = 1 -> "1" [] d = 2 -> "2" [] d = 3 -> "3" [] d = 4 -> "4"
    [] d = 5 -> "5" [] d = 6 -> "6" [] d = 7 -> "7" [] d = 8 -> "8" [] d = 9 -> "9"

\* Number.prototype.toString of a non-negative integer
RECURSIVE NumStr(_)
NumStr(k) ==
  IF k < 10 THEN Run(DigitChar(k), 1)
  ELSE Cat(NumStr(k \div 10), Run(DigitChar(k % 10), 1))

\* k.toString().padStart(2, "0")
PadStart2(k) == IF k < 10 THEN Cat(Run("0", 1), NumStr(k)) ELSE NumStr(k)

\* formatTimestamp as it would be without the padding of the seconds
formatTimestampUnpadded(seconds) ==
  LET hours == seconds \div 3600
      minutes == (seconds % 3600) \div 60
      secs == seconds % 60
  IN IF hours > 0
     THEN Cat(NumStr(hours), Cat(Run(":", 1), Cat(PadStart2(minutes), Cat(Run(":", 1), NumStr(secs)))))
     ELSE Cat(NumStr(minutes), Cat(Run(":", 1), NumStr(secs)))

formatTimestamp(seconds) ==
  LET hours == seconds \div 3600
      minutes == (seconds % 3600) \div 60
      secs == seconds % 60
  IN IF hours > 0
     THEN Cat(NumStr(hours), Cat(Run(":", 1), Cat(PadStart2(minutes), Cat(Run(":", 1), PadStart2(secs)))))
     ELSE Cat(NumStr(minutes), Cat(Run(":", 1), PadStart2(secs)))

\* a literal, character by character
Lit(chars) == Norm([i \in 1..Len(chars) |-> [c |-> chars[i], n |-> 1]])

Unknown == Lit(<<"U", "n", "k", "n", "o", "w", "n">>)

\* parts.join(sep)
RECURSIVE Join(_, _)
Join(parts, sep) ==
  IF parts = <<>> THEN <<>>
  ELSE IF Len(parts) = 1 THEN parts[1]
  ELSE Cat(parts[1], Cat(sep, Join(Tail(parts), sep)))

Texts(segs) == [i \in 1..Len(segs) |-> segs[i].text]

Min(a, b) == IF a < b THEN a ELSE b

RECURSIVE TimestampedBlocks(_, _, _)
TimestampedBlocks(segs, i, groupSize) ==
  IF i > Len(segs) THEN <<>>
  ELSE LET group == SubSeq(segs, i, Min(i + groupSize - 1, Len(segs)))
           text == Trim(CollapseWs(Join(Texts(group), Run(" ", 1))))
           rest == TimestampedBlocks(segs, i + groupSize, groupSize)
       IN IF text = <<>> THEN rest
          ELSE <<Cat(Run("[", 1), Cat(formatTimestamp(group[1].start), Cat(Run("]", 1), Cat(Run(" ", 1), text))))>>
                 \o rest

\* buildTimestampedTranscript as it would be with groups one segment longer
buildTimestampedTranscriptWiderGroups(segs, groupSize) ==
  Join(TimestampedBlocks(segs, 1, groupSize + 1), Run("\n", 1))

buildTimestampedTranscript(segs, groupSize) ==
  Join(TimestampedBlocks(segs, 1, groupSize), Run("\n", 1))

RECURSIVE MaxEnd(_)
MaxEnd(segs) ==
  IF segs = <<>> THEN 0
  ELSE LET end == Head(segs).start + Head(segs).duration
           rest == MaxEnd(Tail(segs))
       IN IF end > rest THEN end ELSE rest

computeDurationFromSegments(segs) ==
  IF Len(segs) = 0 THEN Unknown
  ELSE IF MaxEnd(segs) <= 0 THEN Unknown
  ELSE formatTimestamp(MaxEnd(segs))

RECURSIVE DropChars(_, _)
DropChars(s, k) ==
  IF k <= 0 \/ s = <<>> THEN s
  ELSE IF Head(s).n <= k THEN DropChars(Tail(s), k - Head(s).n)
  ELSE <<[c |-> Head(s).c, n |-> Head(s).n - k]>> \o Tail(s)

RECURSIVE TakeChars(_, _)
TakeChars(s, k) ==
  IF k <= 0 \/ s = <<>> THEN <<>>
  ELSE IF Head(s).n <= k THEN <<Head(s)>> \o TakeChars(Tail(s), k - Head(s).n)
  ELSE <<[c |-> Head(s).c, n |-> k]>>

\* Slice as it would be if it always started at the beginning of the text
SliceFromStart(s, from, to) == TakeChars(s, to - from)

\* text.slice(from, to), 0 <= from <= to
Slice(s, from, to) == TakeChars(DropChars(s, from), to - from)

RECURSIVE SplitFrom(_, _, _, _, _)
SplitFrom(text, i, chunks, maxChars, maxChunks) ==
  IF i < StrLen(text) /\ Len(chunks) < maxChunks
  THEN SplitFrom(text, i + maxChars, Append(chunks, Slice(text, i, i + maxChars)), maxChars, maxChunks)
  ELSE chunks

\* splitIntoChunks as it would be without the limit on the number of chunks
splitIntoChunksUnlimited(text, maxChars, maxChunks) ==
  SplitFrom(text, 0, <<>>, maxChars, StrLen(text))

splitIntoChunks(text, maxChars, maxChunks) == SplitFrom(text, 0, <<>>, maxChars, maxChunks)

GROUP_SIZE == 12
DIRECT_MAX_CHARS == 24000
CHUNK_CHARS == 18000
MAX_CHUNKS == 6
MinOverrideChars == 200

\* ------------------------------------------------------- transcript cache
\* table video_transcripts_cache: a set of rows
\* [video_id, transcript, segments, lang, source]
\* upsert as it would be as a plain insert, without the conflict target
upsertAsInsert(rows, args) ==
  rows \cup {[video_id |-> args.videoId,
              transcript |-> args.transcript,
              segments |-> args.segments,
              lang |-> args.lang,
              source |-> args.source]}

upsert(rows, args) ==
  {row \in rows : row.video_id # args.videoId}
    \cup {[video_id |-> args.videoId,
           transcript |-> args.transcript,
           segments |-> args.segments,
           lang |-> args.lang,
           source |-> args.source]}

\* saveCachedTranscript as it would be if a failed write dropped the video's row
saveCachedTranscriptClearing(rows, configured, writeFails, args) ==
  IF ~configured THEN rows
  ELSE IF writeFails THEN {row \in rows : row.video_id # args.videoId}
  ELSE upsert(rows, args)

\* saveCachedTranscript: the table after the call; writeFails is the upsert
\* answering with an error, which the function does not look at
saveCachedTranscript(rows, configured, writeFails, args) ==
  IF ~configured THEN rows
  ELSE IF writeFails THEN rows
  ELSE upsert(rows, args)

\* getCachedTranscript as it would be if the stored segments were never
\* recognised as an array
getCachedTranscriptNoSegments(rows, configured, queryFails, videoId) ==
  IF ~configured THEN Null
  ELSE LET matching == {row \in rows : row.video_id = videoId} IN
       IF queryFails \/ Cardinality(matching) > 1 THEN Null
       ELSE IF matching = {} THEN Null
       ELSE LET data == CHOOSE row \in matching : TRUE IN
            IF data.transcript = <<>> THEN Null
            ELSE [transcript |-> data.transcript,
                  segments |-> <<>>,
                  lang |-> data.lang,
                  source |-> "cache",
                  usedCache |-> TRUE]

\* getCachedTranscript: queryFails is the select answering with an error;
\* maybeSingle also answers with an error when several rows match
getCachedTranscript(rows, configured, queryFails, videoId) ==
  IF ~configured THEN Null
  ELSE LET matching == {row \in rows : row.video_id = videoId} IN
       IF queryFails \/ Cardinality(matching) > 1 THEN Null
       ELSE IF matching = {} THEN Null
       ELSE LET data == CHOOSE row \in matching : TRUE IN
            IF data.transcript = <<>> THEN Null
            ELSE [transcript |-> data.transcript,
                  segments |-> data.segments,
                  lang |-> data.lang,
                  source |-> "cache",
                  usedCache |-> TRUE]

\* ------------------------------------------------------------ request inputs
NoVideoId == 0

StartOffsets == {0, 30, 1000}

UrlsOf(videos, offsets) ==
  {[given |-> FALSE, videoId |-> NoVideoId, start |-> 0],
   [given |-> TRUE, videoId |-> NoVideoId, start |-> 0]}
    \cup {[given |-> TRUE, videoId |-> v, start |-> t] : v \in videos, t \in offsets}

NoOverride == <<>>
PaddedOverride == Run(" ", 5) \o Run("x", MinOverrideChars) \o Run("\n", 1)

\* one character more than MAX_CHUNKS chunks hold
OverlongOverride == Run("x", MAX_CHUNKS * CHUNK_CHARS + 1)

\* no override; 199 characters; 250 blanks; 200 characters inside surrounding
\* blanks; two characters 300 blanks apart; more than six chunks
Overrides ==
  {NoOverride,
   Run("x", MinOverrideChars - 1),
   Run(" ", 250),
   PaddedOverride,
   Run("x", 1) \o Run(" ", 300) \o Run("x", 1),
   OverlongOverride}

DirectUrls == 8
ListUrls == 2
TrackHosts == 2
WatchUrls == 3

\* the responses of the n URLs of a loop: one of them answers res, the others 404
OneAnswer(n, k, res) == [i \in 1..n |-> IF i = k THEN res ELSE NotFound]

Track(lang) == [lang |-> lang]

TrackLists == {<<Track(LangFr), Track(LangEnUS)>>, <<Track(<<>>)>>}

NoList == [status |-> 404, tracks |-> <<>>]

ListResponses ==
  {[status |-> 200, tracks |-> ts] : ts \in TrackLists} \cup {NoList, NetworkError}

Caption(lang, hasUrl) == [languageCode |-> lang, baseUrl |-> hasUrl]

WatchPages ==
  {[status |-> 200, marker |-> TRUE, apiKey |-> TRUE,
    player |-> [captionTracks |-> <<Caption(LangFr, TRUE), Caption(LangEn, TRUE)>>]],
   [status |-> 200, marker |-> TRUE, apiKey |-> TRUE, player |-> Null],
   [status |-> 200, marker |-> TRUE, apiKey |-> FALSE, player |-> [captionTracks |-> <<>>]],
   [status |-> 200, marker |-> TRUE, apiKey |-> FALSE,
    player |-> [captionTracks |-> <<Caption(<<>>, FALSE)>>]],
   [status |-> 200, marker |-> FALSE, apiKey |-> FALSE, player |-> Null],
   [status |-> 429, marker |-> FALSE, apiKey |-> FALSE, player |-> Null],
   NetworkError}

NoPage == [status |-> 404, marker |-> FALSE, apiKey |-> FALSE, player |-> Null]

InnertubeResponses ==
  {[status |-> 200, player |-> [captionTracks |-> <<Caption(LangFr, TRUE)>>]],
   [status |-> 200, player |-> Null],
   [status |-> 403, player |-> Null],
   NetworkError}

\* ------------------------------------------------------------------- state
VARIABLES
  cache,            \* rows of video_transcripts_cache
  lastWriter,       \* per video: the request whose upsert wrote the row last (0: none)
  cacheConfigured,  \* SUPABASE_URL and SUPABASE_SERVICE_ROLE_KEY are set
  apiKeySet,        \* LOVABLE_API_KEY is set
  pc,               \* per request: where the handler stands
  url,              \* per request: the videoUrl of the body, as parsed
  override,         \* per request: transcriptOverride ("" when absent)
  trail,            \* per request: the resolver stages attempted, with outcomes
  fetched,          \* per request: what the successful strategy returned
  result,           \* per request: what fetchTranscriptBestEffort returned
  cacheRead,        \* per request: "ok" when its cache read was answered, "failed" when not
  cacheWrite,       \* per request: "ok" when its upsert was applied, "failed" when not
  readFrom,         \* per request: lastWriter of its video at its cache read
  title,            \* per request: videoTitle
  segments,         \* per request: the handler's segments
  transcript,       \* per request: the handler's transcript
  formatted,        \* per request: timestampedTranscript
  duration,         \* per request: duration
  chunkSummaries,   \* per request: the chunk summaries received, in order
  genCalls,         \* per request: generator calls issued, in order, with their answers
  response,         \* per request: the envelope returned (Null while running)
  fnArgs,           \* the arguments of a function called on its own (Null: no such call)
  fnRet             \* what that call returned (Null until it has)

vars ==
  <<cache, lastWriter, cacheConfigured, apiKeySet, pc, url, override, trail, fetched,
    result, cacheRead, cacheWrite, readFrom, title, segments, transcript, formatted,
    duration, chunkSummaries, genCalls, response, fnArgs, fnRet>>

callVars == <<fnArgs, fnRet>>
envVars == <<cacheConfigured, apiKeySet>>
cacheVars == <<cache, lastWriter>>
resolverVars == <<trail, fetched, result, cacheRead, cacheWrite, readFrom>>
handlerVars == <<title, segments, transcript, formatted, duration, chunkSummaries, genCalls>>

NoUrl == [given |-> FALSE, videoId |-> NoVideoId, start |-> 0]

\* no request has arrived
Idle ==
  /\ cache = {}
  /\ lastWriter = [v \in VideoIds |-> 0]
  /\ cacheConfigured \in BOOLEAN
  /\ apiKeySet \in BOOLEAN
  /\ pc = [r \in Requests |-> "idle"]
  /\ url = [r \in Requests |-> NoUrl]
  /\ override = [r \in Requests |-> <<>>]
  /\ trail = [r \in Requests |-> <<>>]
  /\ fetched = [r \in Requests |-> Null]
  /\ result = [r \in Requests |-> Null]
  /\ cacheRead = [r \in Requests |-> "none"]
  /\ cacheWrite = [r \in Requests |-> "none"]
  /\ readFrom = [r \in Requests |-> 0]
  /\ title = [r \in Requests |-> ""]
  /\ segments = [r \in Requests |-> <<>>]
  /\ transcript = [r \in Requests |-> <<>>]
  /\ formatted = [r \in Requests |-> <<>>]
  /\ duration = [r \in Requests |-> <<>>]
  /\ chunkSummaries = [r \in Requests |-> <<>>]
  /\ genCalls = [r \in Requests |-> <<>>]
  /\ response = [r \in Requests |-> Null]

Init == Idle /\ fnArgs = Null /\ fnRet = Null

\* ---------------------------------------------------------------- envelopes
Undefined == "undefined"

\* a Response: its transport status and the fields of its JSON body
ErrorResponse(message, code) ==
  [status |-> 200, success |-> FALSE, error |-> message, errorCode |-> code]

\* Caught as it would be if the catch block answered with a server error
CaughtAsServerError(err) ==
  [status |-> 500, success |-> FALSE, error |-> err.message, errorCode |-> err.code]

\* the handler's catch block: error.message, and error.code when the thrown
\* error carries one
Caught(err) == ErrorResponse(err.message, err.code)

NetworkFailure == [message |-> "error sending request", code |-> Undefined]

NoTranscriptMessage ==
  "Could not fetch captions/transcript for this video (YouTube may be rate-limiting or captions are disabled). Paste a transcript to continue."

Record(r, stage, outcome) == [trail EXCEPT ![r] = Append(@, [stage |-> stage, outcome |-> outcome])]

\* Receive as it would be without the test of LOVABLE_API_KEY
ReceiveWithoutKeyTest(r, u, o) ==
  /\ pc[r] = "idle"
  /\ \A q \in Requests : q < r => pc[q] # "idle"
  /\ url' = [url EXCEPT ![r] = u]
  /\ override' = [override EXCEPT ![r] = o]
  /\ IF ~u.given
     THEN /\ response' = [response EXCEPT ![r] = ErrorResponse("Video URL is required", "BAD_REQUEST")]
          /\ pc' = [pc EXCEPT ![r] = "done"]
     ELSE IF u.videoId = NoVideoId
     THEN /\ response' = [response EXCEPT ![r] = ErrorResponse("Invalid YouTube URL", "INVALID_URL")]
          /\ pc' = [pc EXCEPT ![r] = "done"]
     ELSE /\ response' = response
          /\ pc' = [pc EXCEPT ![r] = "title"]
  /\ UNCHANGED <<callVars, envVars, cacheVars, resolverVars, handlerVars>>

\* ------------------------------------------------------------------ handler
\* serve handler, from the request to its first await
Receive(r, u, o) ==
  /\ pc[r] = "idle"
  /\ \A q \in Requests : q < r => pc[q] # "idle"
  /\ url' = [url EXCEPT ![r] = u]
  /\ override' = [override EXCEPT ![r] = o]
  /\ IF ~u.given
     THEN /\ response' = [response EXCEPT ![r] = ErrorResponse("Video URL is required", "BAD_REQUEST")]
          /\ pc' = [pc EXCEPT ![r] = "done"]
     ELSE IF ~apiKeySet
     THEN /\ response' = [response EXCEPT ![r] = ErrorResponse("AI service not configured", "AI_NOT_CONFIGURED")]
          /\ pc' = [pc EXCEPT ![r] = "done"]
     ELSE IF u.videoId = NoVideoId
     THEN /\ response' = [response EXCEPT ![r] = ErrorResponse("Invalid YouTube URL", "INVALID_URL")]
          /\ pc' = [pc EXCEPT ![r] = "done"]
     ELSE /\ response' = response
          /\ pc' = [pc EXCEPT ![r] = "title"]
  /\ UNCHANGED <<callVars, envVars, cacheVars, resolverVars, handlerVars>>

\* getVideoTitleViaOEmbed: the fetched title, or the fallback on any failure
DefaultTitle == "YouTube Video"

LookupTitle(r, t) ==
  /\ pc[r] = "title"
  /\ title' = [title EXCEPT ![r] = t]
  /\ pc' = [pc EXCEPT ![r] = "override"]
  /\ UNCHANGED <<callVars, envVars, cacheVars, resolverVars, url, override, segments, transcript,
                 formatted, duration, chunkSummaries, genCalls, response>>

\* ----------------------------------------------------------------- resolver
\* OverrideAccepted as it would be without the trim
OverrideAcceptedUntrimmed(o) == o # <<>> /\ StrLen(o) >= MinOverrideChars

OverrideAccepted(o) == o # <<>> /\ StrLen(Trim(o)) >= MinOverrideChars

OverrideResult(o) ==
  [transcript |-> Trim(CollapseWs(o)), segments |-> <<>>, source |-> "override", usedCache |-> FALSE]

\* TryOverride as it would be if the pasted transcript were saved like a
\* fetched one
TryOverrideSaved(r) ==
  /\ pc[r] = "override"
  /\ IF OverrideAccepted(override[r])
     THEN /\ result' = [result EXCEPT ![r] = OverrideResult(override[r])]
          /\ trail' = Record(r, "override", "result")
          /\ cache' = saveCachedTranscript(cache, cacheConfigured, FALSE,
                                           [videoId |-> url[r].videoId,
                                            transcript |-> OverrideResult(override[r]).transcript,
                                            segments |-> <<>>,
                                            lang |-> <<>>,
                                            source |-> "override"])
          /\ pc' = [pc EXCEPT ![r] = "resolved"]
     ELSE /\ result' = result
          /\ trail' = Record(r, "override", "none")
          /\ cache' = cache
          /\ pc' = [pc EXCEPT ![r] = "cache"]
  /\ UNCHANGED <<callVars, envVars, lastWriter, handlerVars, url, override, fetched, cacheRead, cacheWrite,
                 readFrom, response>>

\* TryOverride as it would be if the cache were read before the override is
\* returned
TryOverrideAfterCacheRead(r) ==
  /\ pc[r] = "override"
  /\ IF OverrideAccepted(override[r])
     THEN /\ result' = [result EXCEPT ![r] = OverrideResult(override[r])]
          /\ trail' = Record(r, "override", "result")
          /\ cacheRead' = [cacheRead EXCEPT ![r] = IF cacheConfigured THEN "ok" ELSE "failed"]
          /\ pc' = [pc EXCEPT ![r] = "resolved"]
     ELSE /\ result' = result
          /\ trail' = Record(r, "override", "none")
          /\ cacheRead' = cacheRead
          /\ pc' = [pc EXCEPT ![r] = "cache"]
  /\ UNCHANGED <<callVars, envVars, cacheVars, handlerVars, url, override, fetched, cacheWrite,
                 readFrom, response>>

\* fetchTranscriptBestEffort: the override stage
TryOverride(r) ==
  /\ pc[r] = "override"
  /\ IF OverrideAccepted(override[r])
     THEN /\ result' = [result EXCEPT ![r] = OverrideResult(override[r])]
          /\ trail' = Record(r, "override", "result")
          /\ pc' = [pc EXCEPT ![r] = "resolved"]
     ELSE /\ result' = result
          /\ trail' = Record(r, "override", "none")
          /\ pc' = [pc EXCEPT ![r] = "cache"]
  /\ UNCHANGED <<callVars, envVars, cacheVars, handlerVars, url, override, fetched, cacheRead, cacheWrite,
                 readFrom, response>>

\* ReadCache as it would be if a failed read were thrown to the handler
ReadCacheThrowing(r) ==
  /\ pc[r] = "cache"
  /\ \E queryFails \in BOOLEAN :
       LET cached == getCachedTranscript(cache, cacheConfigured, queryFails, url[r].videoId) IN
       /\ cacheRead' = [cacheRead EXCEPT ![r] =
                          IF cacheConfigured /\ ~queryFails THEN "ok" ELSE "failed"]
       /\ IF cacheConfigured /\ queryFails
          THEN /\ result' = result
               /\ trail' = Record(r, "cache", "threw")
               /\ response' = [response EXCEPT ![r] = Caught(NetworkFailure)]
               /\ pc' = [pc EXCEPT ![r] = "done"]
          ELSE IF cached # Null
          THEN /\ result' = [result EXCEPT ![r] = cached]
               /\ trail' = Record(r, "cache", "result")
               /\ pc' = [pc EXCEPT ![r] = "resolved"]
               /\ response' = response
          ELSE /\ result' = result
               /\ trail' = Record(r, "cache", "none")
               /\ pc' = [pc EXCEPT ![r] = "direct"]
               /\ response' = response
  /\ readFrom' = [readFrom EXCEPT ![r] = lastWriter[url[r].videoId]]
  /\ UNCHANGED <<callVars, envVars, cacheVars, handlerVars, url, override, fetched, cacheWrite>>

\* fetchTranscriptBestEffort: the cache stage
ReadCache(r) ==
  /\ pc[r] = "cache"
  /\ \E queryFails \in BOOLEAN :
       LET cached == getCachedTranscript(cache, cacheConfigured, queryFails, url[r].videoId) IN
       /\ cacheRead' = [cacheRead EXCEPT ![r] =
                          IF cacheConfigured /\ ~queryFails THEN "ok" ELSE "failed"]
       /\ IF cached # Null
          THEN /\ result' = [result EXCEPT ![r] = cached]
               /\ trail' = Record(r, "cache", "result")
               /\ pc' = [pc EXCEPT ![r] = "resolved"]
          ELSE /\ result' = result
               /\ trail' = Record(r, "cache", "none")
               /\ pc' = [pc EXCEPT ![r] = "direct"]
  /\ readFrom' = [readFrom EXCEPT ![r] = lastWriter[url[r].videoId]]
  /\ UNCHANGED <<callVars, envVars, cacheVars, handlerVars, url, override, fetched, cacheWrite, response>>

\* AfterStrategy as it would be if the resolver did not return on a result:
\* the result is kept and the next strategy runs as well
AfterStrategyFallsThrough(r, stage, out, nextPc) ==
  IF out = Threw
  THEN /\ trail' = Record(r, stage, "threw")
       /\ response' = [response EXCEPT ![r] = Caught(NetworkFailure)]
       /\ pc' = [pc EXCEPT ![r] = "done"]
       /\ UNCHANGED <<fetched, result>>
  ELSE IF out # Null
  THEN /\ trail' = Record(r, stage, "result")
       /\ fetched' = [fetched EXCEPT ![r] = out]
       /\ pc' = [pc EXCEPT ![r] = nextPc]
       /\ UNCHANGED <<result, response>>
  ELSE /\ trail' = Record(r, stage, "none")
       /\ pc' = [pc EXCEPT ![r] = nextPc]
       /\ UNCHANGED <<fetched, result, response>>

\* what the resolver does with the value (or the exception) of a strategy
\* that is not wrapped in try/catch: an exception leaves the resolver and
\* reaches the handler's catch block
AfterStrategy(r, stage, out, nextPc) ==
  IF out = Threw
  THEN /\ trail' = Record(r, stage, "threw")
       /\ response' = [response EXCEPT ![r] = Caught(NetworkFailure)]
       /\ pc' = [pc EXCEPT ![r] = "done"]
       /\ UNCHANGED <<fetched, result>>
  ELSE IF out # Null
  THEN /\ trail' = Record(r, stage, "result")
       /\ fetched' = [fetched EXCEPT ![r] = out]
       /\ pc' = [pc EXCEPT ![r] = "save"]
       /\ UNCHANGED <<result, response>>
  ELSE /\ trail' = Record(r, stage, "none")
       /\ pc' = [pc EXCEPT ![r] = nextPc]
       /\ UNCHANGED <<fetched, result, response>>

\* every value tryTimedTextDirect can return when one of its URLs answers
\* with a response of the given set
DirectOutcomes(responses) ==
  {tryTimedTextDirect(OneAnswer(DirectUrls, k, res)) : k \in 1..DirectUrls, res \in responses}

ListOutcomes(listings, responses) ==
  {tryTimedTextFromList([j \in 1..ListUrls |-> IF j = i THEN listing ELSE NoList],
                        OneAnswer(TrackHosts, k, res)) :
     i \in 1..ListUrls, listing \in listings, k \in 1..TrackHosts, res \in responses}

WatchOutcomes(pages, inners, responses) ==
  {tryTranscriptFromWatchOrInnertube([j \in 1..WatchUrls |-> IF j = i THEN page ELSE NoPage],
                                     inner, res) :
     i \in 1..WatchUrls, page \in pages, inner \in inners, res \in responses}

TryDirect(r, out) ==
  /\ pc[r] = "direct"
  /\ AfterStrategy(r, "direct", out, "list")
  /\ UNCHANGED <<callVars, envVars, cacheVars, handlerVars, url, override, cacheRead, cacheWrite, readFrom>>

TryList(r, out) ==
  /\ pc[r] = "list"
  /\ AfterStrategy(r, "list", out, "watch")
  /\ UNCHANGED <<callVars, envVars, cacheVars, handlerVars, url, override, cacheRead, cacheWrite, readFrom>>

\* the last strategy runs inside try/catch: its exception is recorded and the
\* resolver returns null
TryWatch(r, out) ==
  /\ pc[r] = "watch"
  /\ IF out = Threw
     THEN /\ trail' = Record(r, "watch", "threw")
          /\ pc' = [pc EXCEPT ![r] = "resolved"]
          /\ UNCHANGED <<fetched, result>>
     ELSE IF out # Null
     THEN /\ trail' = Record(r, "watch", "result")
          /\ fetched' = [fetched EXCEPT ![r] = out]
          /\ pc' = [pc EXCEPT ![r] = "save"]
          /\ UNCHANGED result
     ELSE /\ trail' = Record(r, "watch", "none")
          /\ pc' = [pc EXCEPT ![r] = "resolved"]
          /\ UNCHANGED <<fetched, result>>
  /\ UNCHANGED <<callVars, envVars, cacheVars, handlerVars, url, override, cacheRead, cacheWrite,
                 readFrom, response>>

\* `await saveCachedTranscript(...)` followed by the return of the result
SaveFetched(r) ==
  /\ pc[r] = "save"
  /\ \E writeFails \in BOOLEAN :
       LET args == [videoId |-> url[r].videoId,
                    transcript |-> fetched[r].transcript,
                    segments |-> fetched[r].segments,
                    lang |-> fetched[r].lang,
                    source |-> fetched[r].source]
       IN /\ cache' = saveCachedTranscript(cache, cacheConfigured, writeFails, args)
          /\ cacheWrite' = [cacheWrite EXCEPT ![r] =
                              IF cacheConfigured /\ ~writeFails THEN "ok" ELSE "failed"]
          /\ lastWriter' = IF cacheConfigured /\ ~writeFails
                           THEN [lastWriter EXCEPT ![url[r].videoId] = r]
                           ELSE lastWriter
  /\ result' = [result EXCEPT ![r] = fetched[r]]
  /\ pc' = [pc EXCEPT ![r] = "resolved"]
  /\ UNCHANGED <<callVars, envVars, handlerVars, url, override, trail, fetched, cacheRead, readFrom, response>>

\* ------------------------------------------------ handler, after the resolver
\* ApplyOffset as it would be without the fallback to the unfiltered segments
ApplyOffsetNoFallback(res, startSeconds) ==
  LET Keep(seg) == seg.start >= startSeconds
      filtered == SelectSeq(res.segments, Keep)
  IN IF startSeconds > 0 /\ Len(res.segments) > 0
     THEN [segments |-> filtered, transcript |-> Join(Texts(filtered), Run(" ", 1))]
     ELSE [segments |-> res.segments, transcript |-> res.transcript]

\* ApplyOffset as it would be with a strict comparison of start and offset
ApplyOffsetStrict(res, startSeconds) ==
  LET Keep(seg) == seg.start > startSeconds
      filtered == SelectSeq(res.segments, Keep)
  IN IF startSeconds > 0 /\ Len(res.segments) > 0 /\ Len(filtered) > 0
     THEN [segments |-> filtered, transcript |-> Join(Texts(filtered), Run(" ", 1))]
     ELSE [segments |-> res.segments, transcript |-> res.transcript]

\* the offset filter: segments and transcript in effect for the request
ApplyOffset(res, startSeconds) ==
  LET Keep(seg) == seg.start >= startSeconds
      filtered == SelectSeq(res.segments, Keep)
  IN IF startSeconds > 0 /\ Len(res.segments) > 0 /\ Len(filtered) > 0
     THEN [segments |-> filtered, transcript |-> Join(Texts(filtered), Run(" ", 1))]
     ELSE [segments |-> res.segments, transcript |-> res.transcript]

HasTimestamps(segs) == Len(segs) > MinSegments

\* Chunks as it would be with chunks as large as the direct-mode ceiling
ChunksOfDirectSize(r) == splitIntoChunks(formatted[r], DIRECT_MAX_CHARS, MAX_CHUNKS)

\* Chunks as it would be if the loop took one chunk more
ChunksOneMore(r) == splitIntoChunks(formatted[r], CHUNK_CHARS, MAX_CHUNKS + 1)

Chunks(r) == splitIntoChunks(formatted[r], CHUNK_CHARS, MAX_CHUNKS)

Chunked(r) == StrLen(formatted[r]) > DIRECT_MAX_CHARS

\* Prepare as it would be if a missing transcript were thrown as a plain error
PrepareThrowsOnNull(r) ==
  /\ pc[r] = "resolved"
  /\ IF result[r] = Null
     THEN /\ response' = [response EXCEPT ![r] = Caught([message |-> NoTranscriptMessage, code |-> Undefined])]
          /\ pc' = [pc EXCEPT ![r] = "done"]
          /\ UNCHANGED <<segments, transcript, formatted, duration>>
     ELSE LET eff == ApplyOffset(result[r], url[r].start)
              text == IF HasTimestamps(eff.segments)
                      THEN buildTimestampedTranscript(eff.segments, GROUP_SIZE)
                      ELSE eff.transcript
          IN /\ segments' = [segments EXCEPT ![r] = eff.segments]
             /\ transcript' = [transcript EXCEPT ![r] = eff.transcript]
             /\ duration' = [duration EXCEPT ![r] =
                               IF HasTimestamps(eff.segments)
                               THEN computeDurationFromSegments(eff.segments)
                               ELSE Unknown]
             /\ formatted' = [formatted EXCEPT ![r] = text]
             /\ pc' = [pc EXCEPT ![r] = IF StrLen(text) <= DIRECT_MAX_CHARS THEN "final" ELSE "chunk"]
             /\ response' = response
  /\ UNCHANGED <<callVars, envVars, cacheVars, resolverVars, url, override, title, chunkSummaries, genCalls>>

\* from the return of fetchTranscriptBestEffort to the first generator call
Prepare(r) ==
  /\ pc[r] = "resolved"
  /\ IF result[r] = Null
     THEN /\ response' = [response EXCEPT ![r] = ErrorResponse(NoTranscriptMessage, "NO_TRANSCRIPT")]
          /\ pc' = [pc EXCEPT ![r] = "done"]
          /\ UNCHANGED <<segments, transcript, formatted, duration>>
     ELSE LET eff == ApplyOffset(result[r], url[r].start)
              text == IF HasTimestamps(eff.segments)
                      THEN buildTimestampedTranscript(eff.segments, GROUP_SIZE)
                      ELSE eff.transcript
          IN /\ segments' = [segments EXCEPT ![r] = eff.segments]
             /\ transcript' = [transcript EXCEPT ![r] = eff.transcript]
             /\ duration' = [duration EXCEPT ![r] =
                               IF HasTimestamps(eff.segments)
                               THEN computeDurationFromSegments(eff.segments)
                               ELSE Unknown]
             /\ formatted' = [formatted EXCEPT ![r] = text]
             /\ pc' = [pc EXCEPT ![r] = IF StrLen(text) <= DIRECT_MAX_CHARS THEN "final" ELSE "chunk"]
             /\ response' = response
  /\ UNCHANGED <<callVars, envVars, cacheVars, resolverVars, url, override, title, chunkSummaries, genCalls>>

\* what a generator call gives its caller: a parsed object, or a thrown error
RateLimited == [message |-> "Rate limit exceeded. Please try again in a moment.", code |-> "RATE_LIMIT"]
PaymentRequired == [message |-> "Usage limit reached. Please add credits to continue.", code |-> "PAYMENT_REQUIRED"]
EmptyResponse == [message |-> "AI returned an empty response.", code |-> Undefined]
JsonSyntaxError == [message |-> "Unexpected token in JSON", code |-> Undefined]
JoinTypeError == [message |-> "Cannot read properties of undefined (reading 'join')", code |-> Undefined]

\* GatewayError as it would be without the case of the status 402
GatewayErrorWithoutPayment(res, failMessage) ==
  IF res = NetworkError THEN NetworkFailure
  ELSE IF ~HttpOk(res)
       THEN IF res.status = 429 THEN RateLimited
            ELSE [message |-> failMessage, code |-> Undefined]
  ELSE IF res.payload = [kind |-> "empty"] THEN EmptyResponse
  ELSE IF res.payload = [kind |-> "malformed"] THEN JsonSyntaxError
  ELSE Null

\* a gateway answer: [status, payload]; payload is "empty" (neither tool
\* arguments nor content), "malformed" (text no parsing stage can read) or a
\* parsed object
GatewayError(res, failMessage) ==
  IF res = NetworkError THEN NetworkFailure
  ELSE IF ~HttpOk(res)
       THEN IF res.status = 429 THEN RateLimited
            ELSE IF res.status = 402 THEN PaymentRequired
            ELSE [message |-> failMessage, code |-> Undefined]
  ELSE IF res.payload = [kind |-> "empty"] THEN EmptyResponse
  ELSE IF res.payload = [kind |-> "malformed"] THEN JsonSyntaxError
  ELSE Null

GatewayFailures ==
  {[status |-> 429, payload |-> [kind |-> "empty"]],
   [status |-> 402, payload |-> [kind |-> "empty"]],
   [status |-> 500, payload |-> [kind |-> "empty"]],
   [status |-> 200, payload |-> [kind |-> "empty"]],
   [status |-> 200, payload |-> [kind |-> "malformed"]],
   NetworkError}

Arr(k) == [isArray |-> TRUE, length |-> k]
NotArray == [isArray |-> FALSE, length |-> 0]

ChunkObjects ==
  {[kind |-> "object", chunkSummary |-> "s", chunkKeyPoints |-> Arr(2)],
   [kind |-> "object", chunkSummary |-> "s", chunkKeyPoints |-> NotArray]}

ChunkAnswers == {[status |-> 200, payload |-> o] : o \in ChunkObjects} \cup GatewayFailures

NotesObject(t, sm, kp, sc) ==
  [kind |-> "object", title |-> t, summary |-> sm, keyPoints |-> kp, sections |-> sc]

NotesObjects ==
  {NotesObject("T", "S", Arr(2), Arr(1)),
   NotesObject("T", "S", Arr(0), Arr(0)),
   NotesObject("", "S", Arr(2), Arr(1)),
   NotesObject("T", "", Arr(2), Arr(1)),
   NotesObject("T", "S", NotArray, Arr(1)),
   NotesObject("T", "S", Arr(2), NotArray)}

NotesAnswers == {[status |-> 200, payload |-> o] : o \in NotesObjects} \cup GatewayFailures

\* the request of iteration i of the chunk loop, "CHUNK i/n:" and the chunk,
\* not answered yet
ChunkCall(r, i) ==
  [kind |-> "chunk", index |-> i, of |-> Len(Chunks(r)), input |-> Chunks(r)[i], answer |-> Null]

\* a call with the answer the gateway gave it
Answered(call, res) == [call EXCEPT !.answer = res]

\* SummarizeChunk as it would be if the chunk calls were issued together and
\* awaited together
SummarizeChunksTogether(r) ==
  /\ pc[r] = "chunk"
  /\ \E res \in ChunkAnswers :
       LET err == GatewayError(res, "Failed to summarize transcript. Please try again.") IN
       /\ genCalls' = [genCalls EXCEPT ![r] = [i \in 1..Len(Chunks(r)) |-> Answered(ChunkCall(r, i), res)]]
       /\ IF err # Null
          THEN /\ response' = [response EXCEPT ![r] = Caught(err)]
               /\ pc' = [pc EXCEPT ![r] = "done"]
               /\ UNCHANGED chunkSummaries
          ELSE /\ chunkSummaries' = [chunkSummaries EXCEPT ![r] = [i \in 1..Len(Chunks(r)) |-> res.payload]]
               /\ pc' = [pc EXCEPT ![r] = "final"]
               /\ response' = response
  /\ UNCHANGED <<callVars, envVars, cacheVars, resolverVars, url, override, title, segments, transcript,
                 formatted, duration>>

\* one iteration of the chunk loop: callAiChunkSummary and the push
SummarizeChunk(r) ==
  /\ pc[r] = "chunk"
  /\ \E issued \in {ChunkCall(r, Len(chunkSummaries[r]) + 1)}, res \in ChunkAnswers :
       LET err == GatewayError(res, "Failed to summarize transcript. Please try again.") IN
       /\ genCalls' = [genCalls EXCEPT ![r] = Append(@, Answered(issued, res))]
       /\ IF err # Null
          THEN /\ response' = [response EXCEPT ![r] = Caught(err)]
               /\ pc' = [pc EXCEPT ![r] = "done"]
               /\ UNCHANGED chunkSummaries
          ELSE /\ chunkSummaries' = [chunkSummaries EXCEPT ![r] = Append(@, res.payload)]
               /\ pc' = [pc EXCEPT ![r] =
                           IF Len(chunkSummaries[r]) + 1 < Len(Chunks(r)) THEN "chunk" ELSE "final"]
               /\ response' = response
  /\ UNCHANGED <<callVars, envVars, cacheVars, resolverVars, url, override, title, segments, transcript,
                 formatted, duration>>

\* ValidNotes as it would be without the test of the sections
ValidNotesWithoutSections(notes) ==
  /\ notes.title # ""
  /\ notes.summary # ""
  /\ notes.keyPoints.isArray

\* the basic validation of the parsed notes
ValidNotes(notes) ==
  /\ notes.title # ""
  /\ notes.summary # ""
  /\ notes.keyPoints.isArray
  /\ notes.sections.isArray

SuccessResponse(r, notes) ==
  [status |-> 200,
   success |-> TRUE,
   notes |-> [title |-> notes.title,
              summary |-> notes.summary,
              keyPoints |-> notes.keyPoints,
              sections |-> notes.sections,
              duration |-> duration[r]],
   debug |-> [transcriptSource |-> result[r].source,
              usedCache |-> result[r].usedCache,
              transcriptChars |-> StrLen(transcript[r]),
              segments |-> Len(segments[r]),
              hasTimestamps |-> HasTimestamps(segments[r])]]

\* in chunked mode the summaries are combined first: join on the key points of
\* a summary that has none throws
CombineThrows(r) ==
  Chunked(r) /\ \E i \in 1..Len(chunkSummaries[r]) : ~chunkSummaries[r][i].chunkKeyPoints.isArray

\* SynthesisInput as it would be if the final call always carried the transcript
SynthesisInputOfTranscript(r) ==
  [mode |-> "transcript",
   title |-> title[r],
   duration |-> duration[r],
   startOffset |-> formatTimestamp(url[r].start),
   timestamped |-> HasTimestamps(segments[r]),
   body |-> formatted[r]]

\* synthesisInput, by its interpolated parts: the header and either the
\* formatted transcript or the combined chunk summaries
SynthesisInput(r) ==
  [mode |-> IF Chunked(r) THEN "summaries" ELSE "transcript",
   title |-> title[r],
   duration |-> duration[r],
   startOffset |-> formatTimestamp(url[r].start),
   timestamped |-> ~Chunked(r) /\ HasTimestamps(segments[r]),
   body |-> IF Chunked(r) THEN chunkSummaries[r] ELSE formatted[r]]

\* the final request, not answered yet
FinalCall(r) == [kind |-> "final", input |-> SynthesisInput(r), answer |-> Null]

\* the final synthesis: callAiNotes, the validation and the envelope
Synthesize(r) ==
  /\ pc[r] = "final"
  /\ pc' = [pc EXCEPT ![r] = "done"]
  /\ IF CombineThrows(r)
     THEN /\ response' = [response EXCEPT ![r] = Caught(JoinTypeError)]
          /\ genCalls' = genCalls
     ELSE \E issued \in {FinalCall(r)}, res \in NotesAnswers :
            LET err == GatewayError(res, "Failed to generate notes. Please try again.") IN
            /\ genCalls' = [genCalls EXCEPT ![r] = Append(@, Answered(issued, res))]
            /\ response' = [response EXCEPT ![r] =
                              IF err # Null THEN Caught(err)
                              ELSE IF ~ValidNotes(res.payload)
                              THEN ErrorResponse("Failed to parse notes. Please try again.", "PARSE_ERROR")
                              ELSE SuccessResponse(r, res.payload)]
  /\ UNCHANGED <<callVars, envVars, cacheVars, resolverVars, url, override, title, segments, transcript,
                 formatted, duration, chunkSummaries>>

\* the response has been returned: the invocation and its locals are gone
Deliver(r) ==
  /\ pc[r] = "done"
  /\ pc' = [pc EXCEPT ![r] = "idle"]
  /\ url' = [url EXCEPT ![r] = NoUrl]
  /\ override' = [override EXCEPT ![r] = <<>>]
  /\ trail' = [trail EXCEPT ![r] = <<>>]
  /\ fetched' = [fetched EXCEPT ![r] = Null]
  /\ result' = [result EXCEPT ![r] = Null]
  /\ cacheRead' = [cacheRead EXCEPT ![r] = "none"]
  /\ cacheWrite' = [cacheWrite EXCEPT ![r] = "none"]
  /\ readFrom' = [readFrom EXCEPT ![r] = 0]
  /\ title' = [title EXCEPT ![r] = ""]
  /\ segments' = [segments EXCEPT ![r] = <<>>]
  /\ transcript' = [transcript EXCEPT ![r] = <<>>]
  /\ formatted' = [formatted EXCEPT ![r] = <<>>]
  /\ duration' = [duration EXCEPT ![r] = <<>>]
  /\ chunkSummaries' = [chunkSummaries EXCEPT ![r] = <<>>]
  /\ genCalls' = [genCalls EXCEPT ![r] = <<>>]
  /\ response' = [response EXCEPT ![r] = Null]
  /\ UNCHANGED <<callVars, envVars, cacheVars>>

\* ------------------------------------------------------------ specifications
\* what the oEmbed call can end with, after its retries: a response with its
\* status and its body (parsed says that the body is JSON, title is "" when
\* the JSON has none), or a thrown network error
OEmbedResponses ==
  {[status |-> 200, data |-> [parsed |-> TRUE, title |-> "Fetched title"]],
   [status |-> 200, data |-> [parsed |-> TRUE, title |-> ""]],
   [status |-> 200, data |-> [parsed |-> FALSE, title |-> ""]],
   [status |-> 404, data |-> [parsed |-> TRUE, title |-> "Not Found"]],
   [status |-> 503, data |-> [parsed |-> FALSE, title |-> ""]],
   NetworkError}

\* getVideoTitleViaOEmbed as it would be without the test of res.ok
getVideoTitleWithoutStatusTest(res) ==
  IF res = NetworkError THEN DefaultTitle
  ELSE IF ~res.data.parsed THEN DefaultTitle
  ELSE IF res.data.title = "" THEN DefaultTitle
  ELSE res.data.title

\* getVideoTitleViaOEmbed, given what its call of fetchWithRetry ended with
getVideoTitleViaOEmbed(res) ==
  IF res = NetworkError THEN DefaultTitle
  ELSE IF ~HttpOk(res) THEN DefaultTitle
  ELSE IF ~res.data.parsed THEN DefaultTitle
  ELSE IF res.data.title = "" THEN DefaultTitle
  ELSE res.data.title

Titles == {getVideoTitleViaOEmbed(res) : res \in OEmbedResponses}

\* one request at a time, any number of requests one after the other
Sequential == \A q \in Requests : pc[q] = "idle"

DirectAll == DirectOutcomes(TimedTextResponses)
ListAll == ListOutcomes(ListResponses, TimedTextResponses)
WatchAll == WatchOutcomes(WatchPages, InnertubeResponses, TimedTextResponses)

UrlsAll == UrlsOf({1}, StartOffsets)

\* Spec: requests for one video, one after the other, through the whole handler
Next ==
  \E r \in Requests :
    \/ Sequential /\ \E u \in UrlsAll, o \in Overrides : Receive(r, u, o)
    \/ \E t \in Titles : LookupTitle(r, t)
    \/ TryOverride(r)
    \/ ReadCache(r)
    \/ \E out \in DirectAll : TryDirect(r, out)
    \/ \E out \in ListAll : TryList(r, out)
    \/ \E out \in WatchAll : TryWatch(r, out)
    \/ SaveFetched(r)
    \/ Prepare(r)
    \/ SummarizeChunk(r)
    \/ Synthesize(r)
    \/ Deliver(r)

Spec == Init /\ [][Next]_vars

\* SpecResolver: concurrent requests for any video, each followed until
\* fetchTranscriptBestEffort has returned (or thrown)
DirectSome == DirectOutcomes({NotFound, [status |-> 200, body |-> BodyA]})
ListSome ==
  ListOutcomes({[status |-> 200, tracks |-> <<Track(LangFr), Track(LangEnUS)>>]},
               {NotFound, [status |-> 200, body |-> BodyB]})
WatchSome == WatchOutcomes({NoPage}, {NetworkError}, {NotFound})

UrlsSome == UrlsOf(VideoIds, {0})
OverridesSome == {NoOverride, PaddedOverride}

NextResolver ==
  \E r \in Requests :
    \/ \E u \in UrlsSome, o \in OverridesSome : Receive(r, u, o)
    \/ LookupTitle(r, DefaultTitle)
    \/ TryOverride(r)
    \/ ReadCache(r)
    \/ \E out \in DirectSome : TryDirect(r, out)
    \/ \E out \in ListSome : TryList(r, out)
    \/ \E out \in WatchSome : TryWatch(r, out)
    \/ SaveFetched(r)

SpecResolver == Init /\ [][NextResolver]_vars

\* SpecLive: requests one after the other, with or without a pasted
\* transcript of more than six chunks, every call of a running request
\* returning in the end
UrlsLive == UrlsOf({1}, {0})
OverridesLive == {NoOverride, OverlongOverride}

NextLive ==
  \E r \in Requests :
    \/ Sequential /\ \E u \in UrlsLive, o \in OverridesLive : Receive(r, u, o)
    \/ \E t \in Titles : LookupTitle(r, t)
    \/ TryOverride(r)
    \/ ReadCache(r)
    \/ \E out \in DirectSome : TryDirect(r, out)
    \/ \E out \in ListSome : TryList(r, out)
    \/ \E out \in WatchSome : TryWatch(r, out)
    \/ SaveFetched(r)
    \/ Prepare(r)
    \/ SummarizeChunk(r)
    \/ Synthesize(r)
    \/ Deliver(r)

\* the synchronous code between fetchTranscriptBestEffort and the first
\* generator call, by where it leaves the handler
Prepared(r) ==
  /\ pc[r] = "resolved"
  /\ \E p \in {"done", "chunk", "final"} : pc' = [pc EXCEPT ![r] = p]

\* the final generator call and the code after it, by where they leave the
\* handler
Synthesized(r) ==
  /\ pc[r] = "final"
  /\ pc' = [pc EXCEPT ![r] = "done"]

\* every awaited call of a running request returns (with a response or an
\* exception) and the code after it runs; nothing obliges a request to
\* arrive.  A strategy that returns null stands for every return of the
\* strategy: each of them leaves the stage.
Returns(r) ==
  /\ WF_vars(LookupTitle(r, DefaultTitle))
  /\ WF_vars(TryOverride(r))
  /\ WF_vars(ReadCache(r))
  /\ WF_vars(TryDirect(r, Null))
  /\ WF_vars(TryList(r, Null))
  /\ WF_vars(TryWatch(r, Null))
  /\ WF_vars(SaveFetched(r))
  /\ WF_pc(Prepared(r))
  /\ WF_vars(SummarizeChunk(r))
  /\ WF_pc(Synthesized(r))

SpecLive == Init /\ [][NextLive]_vars /\ \A r \in Requests : Returns(r)

\* SpecFunctions: the pure functions, each called on its own on arguments
\* drawn from a bounded set
MaxTextLen == 7
MaxChunkChars == 4
MaxChunkCount == 3

Letters == <<"a", "b", "c", "d", "e", "f", "g", "h", "i", "j">>

\* "", "a", "ab", "abc", ...
LettersText(n) == Lit([i \in 1..n |-> Letters[((i - 1) % Len(Letters)) + 1]])

\* short texts under every small configuration, long ones under the handler's
SplitInputs ==
  [fn : {"splitIntoChunks"},
   text : {LettersText(n) : n \in 0..MaxTextLen},
   maxChars : 0..MaxChunkChars,
   maxChunks : 0..MaxChunkCount]
    \cup [fn : {"splitIntoChunks"},
          text : {Run("a", CHUNK_CHARS) \o Run("b", CHUNK_CHARS) \o Run("c", 14000),
                  OverlongOverride},
          maxChars : {CHUNK_CHARS},
          maxChunks : {MAX_CHUNKS}]

\* fetchWithRetry: answers are what the server gives to the successive
\* requests, a response or a rejection; attempt counts from 0; the outcome is
\* the number of requests made, the response returned (Threw when a fetch
\* rejected) and the delays slept, in order, each one after the request
\* whose answer asked for it
RECURSIVE Attempts(_, _, _)
Attempts(answers, attempt, opts) ==
  LET res == answers[attempt + 1]
      delay == opts.baseDelayMs * 2^attempt
  IN IF res = NetworkError THEN [requests |-> attempt + 1, value |-> Threw, sleeps |-> <<>>]
     ELSE IF res.status \notin opts.retryOn
          THEN [requests |-> attempt + 1, value |-> res, sleeps |-> <<>>]
     ELSE IF attempt + 1 <= opts.retries
          THEN LET rest == Attempts(answers, attempt + 1, opts) IN
               [rest EXCEPT !.sleeps = <<delay>> \o @]
     ELSE [requests |-> attempt + 1, value |-> res, sleeps |-> <<delay>>]

\* fetchWithRetry as it would be if it went on as long as the status asks for it
fetchWithRetryUnbounded(answers, opts) ==
  Attempts(answers, 0, [opts EXCEPT !.retries = Len(answers) - 1])

fetchWithRetry(answers, opts) == Attempts(answers, 0, opts)

DefaultRetryOn == {429, 500, 502, 503, 504}
DefaultBaseDelayMs == 600

\* the calls as they would be if none of them narrowed the retry set
CallSitesAllDefault ==
  [site : {"oembed"}, retries : {2}, baseDelayMs : {500}, retryOn : {DefaultRetryOn}]
    \cup [site : {"timedtext", "list", "listed track"}, retries : {2}, baseDelayMs : {700},
          retryOn : {DefaultRetryOn}]
    \cup [site : {"watch", "innertube", "selected track"}, retries : {2}, baseDelayMs : {900},
          retryOn : {DefaultRetryOn}]

\* the options of the calls of fetchWithRetry in the file
CallSites ==
  [site : {"oembed"}, retries : {2}, baseDelayMs : {500}, retryOn : {DefaultRetryOn}]
    \cup [site : {"timedtext", "list", "listed track"}, retries : {2}, baseDelayMs : {700},
          retryOn : {DefaultRetryOn}]
    \cup [site : {"watch", "innertube", "selected track"}, retries : {2}, baseDelayMs : {900},
          retryOn : {{429, 503}}]

MaxRetries == 3

\* every call site, and the default retry set under every small budget,
\* against every sequence of answers
FetchInputs ==
  [fn : {"fetchWithRetry"},
   opts : CallSites \cup [site : {"any"}, retries : 0..MaxRetries, baseDelayMs : {DefaultBaseDelayMs},
                            retryOn : {DefaultRetryOn}],
   answers : [1..(MaxRetries + 1) ->
                {[status |-> st] : st \in {200, 404, 429, 500, 503}} \cup {NetworkError}]]

ApplyFetchWithRetry ==
  /\ fnArgs # Null /\ fnRet = Null
  /\ fnArgs.fn = "fetchWithRetry"
  /\ fnRet' = fetchWithRetry(fnArgs.answers, fnArgs.opts)
  /\ UNCHANGED <<fnArgs, envVars, cacheVars, resolverVars, handlerVars, pc, url, override, response>>

\* parseStartSecondsFromUrl. A URL is what new URL makes of it: whether it
\* parses, and the pairs of its query in order; a parameter value is the
\* sequence of its characters.
\* null where a string may stand: no string has a character of four letters
NullString == <<"null">>

\* Number(t) of a string of digits
RECURSIVE NumberOfDigits(_)
NumberOfDigits(t) ==
  IF t = <<>> THEN 0
  ELSE 10 * NumberOfDigits(SubSeq(t, 1, Len(t) - 1)) + DigitVal(t[Len(t)])

\* /^\d+$/.test(t)
OnlyDigits(t) == Len(t) >= 1 /\ \A i \in 1..Len(t) : t[i] \in Digits

\* searchParams.get(name): the value of the first pair of that name, or null
searchParamsGet(params, name) ==
  LET at == {i \in 1..Len(params) : params[i].name = name} IN
  IF at = {} THEN NullString
  ELSE params[CHOOSE i \in at : \A k \in at : i <= k].value

\* t.match(/(\d+)X/) for a letter X: group 1 of the leftmost match, or null.
\* The leftmost match ends at the first X that follows a digit and starts
\* where the digits before that X start.
MatchUnit(t, unit) ==
  LET ends == {j \in 2..Len(t) : t[j] = unit /\ t[j - 1] \in Digits} IN
  IF ends = {} THEN NullString
  ELSE LET j == CHOOSE e \in ends : \A k \in ends : e <= k
           i == CHOOSE b \in 1..(j - 1) :
                  /\ \A k \in b..(j - 1) : t[k] \in Digits
                  /\ b = 1 \/ t[b - 1] \notin Digits
       IN SubSeq(t, i, j - 1)

parseStartSecondsFromUrl(videoUrl) ==
  IF ~videoUrl.parses THEN 0
  ELSE LET first == searchParamsGet(videoUrl.params, "t")
           t == IF first = NullString \/ first = <<>>
                THEN searchParamsGet(videoUrl.params, "start")
                ELSE first
       IN IF t = NullString \/ t = <<>> THEN 0
          ELSE IF OnlyDigits(t) THEN NumberOfDigits(t)
          ELSE IF t[Len(t)] = "s" /\ OnlyDigits(SubSeq(t, 1, Len(t) - 1))
               THEN NumberOfDigits(SubSeq(t, 1, Len(t) - 1))
          ELSE LET h == MatchUnit(t, "h")
                   m == MatchUnit(t, "m")
                   sec == MatchUnit(t, "s")
               IN (IF h # NullString THEN NumberOfDigits(h) * 3600 ELSE 0)
                    + (IF m # NullString THEN NumberOfDigits(m) * 60 ELSE 0)
                    + (IF sec # NullString THEN NumberOfDigits(sec) ELSE 0)

MaxParamLen == 4

\* every value of up to MaxParamLen characters, and the full form
ParamValues ==
  UNION {[1..n -> {"1", "2", "h", "m", "s", "x"}] : n \in 0..MaxParamLen}
    \cup {<<"1", "h", "2", "m", "1", "2", "s">>}

\* a URL that does not parse, and the URLs with every t and a few start
UrlInputs ==
  {[fn |-> "parseStartSecondsFromUrl", parses |-> FALSE, params |-> <<>>]}
    \cup {[fn |-> "parseStartSecondsFromUrl", parses |-> TRUE,
           params |-> (IF t = NullString THEN <<>> ELSE <<[name |-> "t", value |-> t]>>)
                        \o (IF st = NullString THEN <<>> ELSE <<[name |-> "start", value |-> st]>>)] :
            t \in ParamValues \cup {NullString},
            st \in {NullString, <<>>, <<"1", "2">>, <<"2", "m">>}}

ApplyParseStartSecondsFromUrl ==
  /\ fnArgs # Null /\ fnRet = Null
  /\ fnArgs.fn = "parseStartSecondsFromUrl"
  /\ fnRet' = [value |-> parseStartSecondsFromUrl(fnArgs)]
  /\ UNCHANGED <<fnArgs, envVars, cacheVars, resolverVars, handlerVars, pc, url, override, response>>

MaxSegments == 25

\* the segments parseTimedTextXml makes: texts without blanks at either end
\* and without two blanks in a row, never empty; of two kinds, and either
\* seconds or minutes apart
SegmentText(i, kind) ==
  IF kind = 1 THEN Run("a", 1 + (i % 3))
  ELSE IF i % 4 = 0 THEN Cat(Run("b", 1), Cat(Run(" ", 1), Run("c", i)))
  ELSE Run("a", 1 + (i % 5))

SegmentInputs ==
  {[fn |-> "buildTimestampedTranscript",
    segments |-> [i \in 1..n |-> [text |-> SegmentText(i, kind), start |-> (i - 1) * gap, duration |-> gap]],
    groupSize |-> GROUP_SIZE] :
     n \in 0..MaxSegments, kind \in 1..2, gap \in {5, 400}}

ApplyBuildTimestampedTranscript ==
  /\ fnArgs # Null /\ fnRet = Null
  /\ fnArgs.fn = "buildTimestampedTranscript"
  /\ fnRet' = [value |-> buildTimestampedTranscript(fnArgs.segments, fnArgs.groupSize)]
  /\ UNCHANGED <<fnArgs, envVars, cacheVars, resolverVars, handlerVars, pc, url, override, response>>

\* parseJsonLenient. A text is the sequence of its characters. A JSON value
\* is [str |-> characters], [num |-> n], [arr |-> values] or
\* [obj |-> members], a member being [key |-> characters, val |-> value];
\* the texts have neither backslashes nor signs, fractions or literals.
JsonWs == {" ", "\n", "\t", "\r"}

\* the first index from i on that does not hold white space
SkipWs(t, i) ==
  CHOOSE j \in i..(Len(t) + 1) :
    /\ j = Len(t) + 1 \/ t[j] \notin JsonWs
    /\ \A k \in i..(j - 1) : t[k] \in JsonWs

\* t holds the characters of pat from index i on
HasAt(t, i, pat) ==
  /\ i + Len(pat) - 1 <= Len(t)
  /\ \A k \in 1..Len(pat) : t[i + k - 1] = pat[k]

SyntaxError == [ok |-> FALSE]

\* obj[key] = val: the value of a key already there is replaced in place
SetMember(members, key, val) ==
  IF \E i \in 1..Len(members) : members[i].key = key
  THEN [i \in 1..Len(members) |->
          IF members[i].key = key THEN [key |-> key, val |-> val] ELSE members[i]]
  ELSE Append(members, [key |-> key, val |-> val])

\* a string literal starting at the quote at i
ParseString(t, i) ==
  LET closing == {q \in (i + 1)..Len(t) : t[q] = "\""} IN
  IF closing = {} THEN SyntaxError
  ELSE LET q == CHOOSE c \in closing : \A k \in closing : c <= k IN
       IF \E k \in (i + 1)..(q - 1) : t[k] \in {"\n", "\t", "\r"} THEN SyntaxError
       ELSE [ok |-> TRUE, value |-> [str |-> SubSeq(t, i + 1, q - 1)], next |-> q + 1]

\* a number starting at the digit at i
ParseNumber(t, i) ==
  LET end == CHOOSE j \in i..Len(t) :
               /\ \A k \in i..j : t[k] \in Digits
               /\ j = Len(t) \/ t[j + 1] \notin Digits
  IN IF end > i /\ t[i] = "0" THEN SyntaxError
     ELSE [ok |-> TRUE, value |-> [num |-> NumberOfDigits(SubSeq(t, i, end))], next |-> end + 1]

\* JSON.parse: the value starting at or after i, the members of an object
\* and the elements of an array after those read so far
RECURSIVE ParseValue(_, _), ParseMembers(_, _, _), ParseItems(_, _, _)
ParseValue(t, i) ==
  LET j == SkipWs(t, i) IN
  IF j > Len(t) THEN SyntaxError
  ELSE IF t[j] = "\"" THEN ParseString(t, j)
  ELSE IF t[j] \in Digits THEN ParseNumber(t, j)
  ELSE IF t[j] = "{"
       THEN LET k == SkipWs(t, j + 1) IN
            IF k <= Len(t) /\ t[k] = "}"
            THEN [ok |-> TRUE, value |-> [obj |-> <<>>], next |-> k + 1]
            ELSE ParseMembers(t, k, <<>>)
  ELSE IF t[j] = "["
       THEN LET k == SkipWs(t, j + 1) IN
            IF k <= Len(t) /\ t[k] = "]"
            THEN [ok |-> TRUE, value |-> [arr |-> <<>>], next |-> k + 1]
            ELSE ParseItems(t, k, <<>>)
  ELSE SyntaxError

ParseMembers(t, i, members) ==
  LET j == SkipWs(t, i) IN
  IF j > Len(t) \/ t[j] # "\"" THEN SyntaxError
  ELSE LET key == ParseString(t, j) IN
       IF ~key.ok THEN SyntaxError
       ELSE LET colon == SkipWs(t, key.next) IN
            IF colon > Len(t) \/ t[colon] # ":" THEN SyntaxError
            ELSE LET val == ParseValue(t, colon + 1) IN
                 IF ~val.ok THEN SyntaxError
                 ELSE LET e == SkipWs(t, val.next)
                          now == SetMember(members, key.value.str, val.value)
                      IN IF e > Len(t) THEN SyntaxError
                         ELSE IF t[e] = "," THEN ParseMembers(t, e + 1, now)
                         ELSE IF t[e] = "}" THEN [ok |-> TRUE, value |-> [obj |-> now], next |-> e + 1]
                         ELSE SyntaxError

ParseItems(t, i, items) ==
  LET val == ParseValue(t, i) IN
  IF ~val.ok THEN SyntaxError
  ELSE LET e == SkipWs(t, val.next)
           now == Append(items, val.value)
       IN IF e > Len(t) THEN SyntaxError
          ELSE IF t[e] = "," THEN ParseItems(t, e + 1, now)
          ELSE IF t[e] = "]" THEN [ok |-> TRUE, value |-> [arr |-> now], next |-> e + 1]
          ELSE SyntaxError

\* JSON.parse(t): the value, or Threw for a SyntaxError
JSONParse(t) ==
  LET val == ParseValue(t, 1) IN
  IF val.ok /\ SkipWs(t, val.next) > Len(t) THEN [value |-> val.value] ELSE Threw

\* String.prototype.trim on a sequence of characters
TrimChars(t) ==
  LET inside == {i \in 1..Len(t) : t[i] \notin JsonWs} IN
  IF inside = {} THEN <<>>
  ELSE SubSeq(t, CHOOSE i \in inside : \A k \in inside : i <= k,
                 CHOOSE i \in inside : \A k \in inside : i >= k)

\* three backticks, each the character of code 96
Fence == <<"U+96", "U+96", "U+96">>

\* input.match(/FENCEjson\s*([\s\S]*?)\s*FENCE/i), FENCE being three
\* backticks and the texts being in lower case:
\* group 1 of the leftmost match, or null. A match starts at an opening that
\* has a fence after it; the group starts after the white space that follows
\* the opening and ends where white space and a fence first follow.
FencedGroup(input) ==
  LET closes(p) == HasAt(input, SkipWs(input, p), Fence)
      opens == {o \in 1..Len(input) :
                  /\ HasAt(input, o, Fence \o <<"j", "s", "o", "n">>)
                  /\ \E p \in (o + 7)..(Len(input) + 1) : closes(p)}
  IN IF opens = {} THEN NullString
     ELSE LET o == CHOOSE x \in opens : \A k \in opens : x <= k
              a == SkipWs(input, o + 7)
              from == IF \E p \in a..(Len(input) + 1) : closes(p) THEN a ELSE o + 7
              to == CHOOSE p \in from..(Len(input) + 1) :
                      closes(p) /\ \A k \in from..(p - 1) : ~closes(k)
          IN SubSeq(input, from, to - 1)

extractJsonFromText(input) ==
  LET fenced == FencedGroup(input)
      opening == {i \in 1..Len(input) : input[i] = "{"}
      closing == {i \in 1..Len(input) : input[i] = "}"}
  IN IF fenced # NullString /\ fenced # <<>> THEN TrimChars(fenced)
     ELSE IF opening # {} /\ closing # {}
          THEN LET firstBrace == CHOOSE i \in opening : \A k \in opening : i <= k
                   lastBrace == CHOOSE i \in closing : \A k \in closing : i >= k
               IN IF lastBrace > firstBrace THEN SubSeq(input, firstBrace, lastBrace)
                  ELSE NullString
     ELSE NullString

\* raw.replace(/,\s*([}\]])/g, "$1"): a comma and the white space after it
\* go when a closing brace or bracket follows them
StripTrailingCommas(raw) ==
  LET dropped == {i \in 1..Len(raw) :
                    \E c \in 1..i :
                      /\ raw[c] = ","
                      /\ SkipWs(raw, c + 1) > i
                      /\ SkipWs(raw, c + 1) <= Len(raw)
                      /\ raw[SkipWs(raw, c + 1)] \in {"}", "]"}}
      kept == (1..Len(raw)) \ dropped
  IN [k \in 1..Cardinality(kept) |->
        raw[CHOOSE i \in kept : Cardinality({x \in kept : x <= i}) = k]]

parseJsonLenient(input) ==
  LET extracted == extractJsonFromText(input)
      raw == IF extracted # NullString THEN extracted ELSE input
      parsed == JSONParse(raw)
  IN IF parsed # Threw THEN parsed ELSE JSONParse(StripTrailingCommas(raw))

MaxStringLen == 2

\* objects with one string of up to MaxStringLen characters, the empty
\* object, and objects with numbers, arrays and an object inside
JsonObjects ==
  {[obj |-> <<[key |-> <<"a">>, val |-> [str |-> s]]>>] :
     s \in UNION {[1..n -> {"a", ",", "}", " "}] : n \in 0..MaxStringLen}}
    \cup {[obj |-> <<>>],
          [obj |-> <<[key |-> <<"a">>, val |-> [num |-> 12]],
                     [key |-> <<"b">>, val |-> [arr |-> <<[str |-> <<"a">>], [num |-> 0]>>]]>>],
          [obj |-> <<[key |-> <<"a">>, val |-> [obj |-> <<[key |-> <<"b">>, val |-> [arr |-> <<>>]]>>]],
                     [key |-> <<"c">>, val |-> [str |-> <<"a", " ", "b">>]]>>]}

\* the text of a value as a generator writes it, with or without a comma
\* after the last member of an object and the last element of an array
RECURSIVE Stringify(_, _), StringifyAll(_, _, _)
Stringify(v, trailing) ==
  IF "str" \in DOMAIN v THEN <<"\"">> \o v.str \o <<"\"">>
  ELSE IF "num" \in DOMAIN v
       THEN (IF v.num >= 10 THEN <<DigitChar(v.num \div 10)>> ELSE <<>>) \o <<DigitChar(v.num % 10)>>
  ELSE IF "arr" \in DOMAIN v THEN <<"[">> \o StringifyAll(v.arr, trailing, FALSE) \o <<"]">>
  ELSE <<"{">> \o StringifyAll(v.obj, trailing, TRUE) \o <<"}">>

StringifyAll(parts, trailing, members) ==
  IF parts = <<>> THEN <<>>
  ELSE (IF members
        THEN <<"\"">> \o Head(parts).key \o <<"\"", ":", " ">> \o Stringify(Head(parts).val, trailing)
        ELSE Stringify(Head(parts), trailing))
         \o (IF Len(parts) > 1 THEN <<",", " ">> ELSE IF trailing THEN <<",", "\n">> ELSE <<>>)
         \o StringifyAll(Tail(parts), trailing, members)

\* the four ways an object reaches parseJsonLenient
Rendered(object, rendering) ==
  CASE rendering = "raw" -> Stringify(object, FALSE)
    [] rendering = "fenced" ->
         <<"a", ":", "\n">> \o Fence \o <<"j", "s", "o", "n", "\n">>
           \o Stringify(object, FALSE) \o <<"\n">> \o Fence \o <<"\n", "a">>
    [] rendering = "prose" -> <<"a", " ", "a", ":", " ">> \o Stringify(object, FALSE) \o <<" ", "a", ",", " ", "a">>
    [] rendering = "trailing comma" -> Stringify(object, TRUE)

\* values that are not objects: arrays with and without objects inside, a
\* string with braces inside, a number
JsonValues ==
  {[arr |-> <<>>],
   [arr |-> <<[num |-> 1], [str |-> <<"a">>]>>],
   [arr |-> <<[obj |-> <<[key |-> <<"a">>, val |-> [num |-> 1]]>>]>>],
   [arr |-> <<[obj |-> <<[key |-> <<"a">>, val |-> [num |-> 1]]>>], [obj |-> <<>>]>>],
   [str |-> <<"{", "a", "}">>],
   [num |-> 12]}

JsonInputs ==
  {[fn |-> "parseJsonLenient", object |-> o, rendering |-> r, input |-> Rendered(o, r)] :
     o \in JsonObjects, r \in {"raw", "fenced", "prose", "trailing comma"}}
    \cup {[fn |-> "parseJsonLenient", object |-> v, rendering |-> "raw", input |-> Rendered(v, "raw")] :
            v \in JsonValues}

ApplyParseJsonLenient ==
  /\ fnArgs # Null /\ fnRet = Null
  /\ fnArgs.fn = "parseJsonLenient"
  /\ fnRet' = parseJsonLenient(fnArgs.input)
  /\ UNCHANGED <<fnArgs, envVars, cacheVars, resolverVars, handlerVars, pc, url, override, response>>

\* extractBalancedJsonObjectAfterMarker: the loop from index i on, with the
\* depth and the string and escape flags it has at i; the index of the brace
\* that closes the object, or 0 when the text ends first
RECURSIVE ScanBalanced(_, _, _, _, _)
ScanBalanced(html, i, depth, inStr, esc) ==
  IF i > Len(html) THEN 0
  ELSE IF inStr
       THEN IF esc THEN ScanBalanced(html, i + 1, depth, TRUE, FALSE)
            ELSE IF html[i] = "\\" THEN ScanBalanced(html, i + 1, depth, TRUE, TRUE)
            ELSE ScanBalanced(html, i + 1, depth, html[i] # "\"", FALSE)
  ELSE IF html[i] = "\"" THEN ScanBalanced(html, i + 1, depth, TRUE, esc)
  ELSE IF html[i] = "{" THEN ScanBalanced(html, i + 1, depth + 1, FALSE, esc)
  ELSE IF html[i] = "}"
       THEN IF depth - 1 = 0 THEN i ELSE ScanBalanced(html, i + 1, depth - 1, FALSE, esc)
  ELSE ScanBalanced(html, i + 1, depth, FALSE, esc)

\* extractBalancedJsonObjectAfterMarker as it would be if it took the first
\* opening brace of the page
extractBalancedJsonObjectAtFirstBrace(html, marker) ==
  LET found == {i \in 1..Len(html) : HasAt(html, i, marker)}
      braces == {i \in 1..Len(html) : html[i] = "{"}
  IN IF found = {} \/ braces = {} THEN NullString
     ELSE LET startBrace == CHOOSE i \in braces : \A k \in braces : i <= k
              end == ScanBalanced(html, startBrace, 0, FALSE, FALSE)
          IN IF end = 0 THEN NullString ELSE SubSeq(html, startBrace, end)

extractBalancedJsonObjectAfterMarker(html, marker) ==
  LET found == {i \in 1..Len(html) : HasAt(html, i, marker)} IN
  IF found = {} THEN NullString
  ELSE LET idx == CHOOSE i \in found : \A k \in found : i <= k
           braces == {i \in idx..Len(html) : html[i] = "{"}
       IN IF braces = {} THEN NullString
          ELSE LET startBrace == CHOOSE i \in braces : \A k \in braces : i <= k
                   end == ScanBalanced(html, startBrace, 0, FALSE, FALSE)
               IN IF end = 0 THEN NullString ELSE SubSeq(html, startBrace, end)

MaxHtmlLen == 6

\* pages: nothing, the marker, or braces and the marker, and then up to
\* MaxHtmlLen braces, quotes and backslashes; "m" stands for the marker
HtmlInputs ==
  {[fn |-> "extractBalancedJsonObjectAfterMarker", html |-> before \o after, marker |-> <<"m">>] :
     before \in {<<>>, <<"m">>, <<"{", "}", "m">>, <<"m", "a", "m">>},
     after \in UNION {[1..n -> {"{", "}", "\"", "\\"}] : n \in 0..MaxHtmlLen}}

ApplyExtractBalanced ==
  /\ fnArgs # Null /\ fnRet = Null
  /\ fnArgs.fn = "extractBalancedJsonObjectAfterMarker"
  /\ fnRet' = [value |-> extractBalancedJsonObjectAfterMarker(fnArgs.html, fnArgs.marker)]
  /\ UNCHANGED <<fnArgs, envVars, cacheVars, resolverVars, handlerVars, pc, url, override, response>>

\* tryTimedTextFromList against a server that answers a track URL by its
\* lang parameter: server[lang] holds the responses of the two hosts
\* (url.searchParams.set("lang", preferred.lang)); as it would be if it went
\* on to the other listed tracks when the preferred one gives nothing
tryTimedTextFromEachTrack(listResponses, server) ==
  LET listed == listCaptionTracks(listResponses) IN
  IF listed = Threw THEN Threw
  ELSE IF Len(listed.tracks) = 0 THEN Null
  ELSE LET preferred == PreferredTrack(listed.tracks)
           first == FetchListedTrack(preferred, server[preferred.lang])
           others == {i \in 1..Len(listed.tracks) :
                        FetchListedTrack(listed.tracks[i], server[listed.tracks[i].lang])
                          \notin {Null, Threw}}
       IN IF first # Null \/ others = {} THEN first
          ELSE LET i == CHOOSE i \in others : \A k \in others : i <= k IN
               FetchListedTrack(listed.tracks[i], server[listed.tracks[i].lang])

tryTimedTextFromListOn(listResponses, server) ==
  LET listed == listCaptionTracks(listResponses) IN
  IF listed = Threw THEN Threw
  ELSE IF Len(listed.tracks) = 0 THEN Null
  ELSE LET preferred == PreferredTrack(listed.tracks) IN
       FetchListedTrack(preferred, server[preferred.lang])

MaxTracks == 2

TrackLangs == {LangFr, LangEn, LangEnUS}

\* what a host may answer for a track: 404, a usable transcript, a transcript
\* of ten segments, or no answer at all
TrackAnswers ==
  {NotFound, [status |-> 200, body |-> BodyA], [status |-> 200, body |-> BodyTenSegments],
   NetworkError}

\* the answers of the hosts for one track: every host the same answer, or
\* the last of them an answer and the others 404
HostAnswers ==
  {[i \in 1..TrackHosts |-> res] : res \in TrackAnswers}
    \cup {OneAnswer(TrackHosts, TrackHosts, res) : res \in TrackAnswers}

\* a video's listed tracks, and what the hosts answer for each language
TrackInputs ==
  [fn : {"tryTimedTextFromList"},
   tracks : UNION {[1..n -> {Track(l) : l \in TrackLangs}] : n \in 0..MaxTracks},
   server : [TrackLangs -> HostAnswers]]

ApplyTryTimedTextFromList ==
  /\ fnArgs # Null /\ fnRet = Null
  /\ fnArgs.fn = "tryTimedTextFromList"
  /\ fnRet' = [value |-> tryTimedTextFromListOn(
                           <<[status |-> 200, tracks |-> fnArgs.tracks], NoList>>, fnArgs.server)]
  /\ UNCHANGED <<fnArgs, envVars, cacheVars, resolverVars, handlerVars, pc, url, override, response>>

MaxSeconds == 4000

\* every whole number of seconds up to MaxSeconds, and ten hours, a day less
\* a second and a hundred hours less a second
TimestampInputs ==
  [fn : {"formatTimestamp"}, seconds : 0..MaxSeconds \cup {36000, 86399, 359999}]

ApplyFormatTimestamp ==
  /\ fnArgs # Null /\ fnRet = Null
  /\ fnArgs.fn = "formatTimestamp"
  /\ fnRet' = [value |-> formatTimestamp(fnArgs.seconds)]
  /\ UNCHANGED <<fnArgs, envVars, cacheVars, resolverVars, handlerVars, pc, url, override, response>>

ApplySplitIntoChunks ==
  /\ fnArgs # Null /\ fnRet = Null
  /\ fnArgs.fn = "splitIntoChunks"
  /\ fnRet' = [value |-> splitIntoChunks(fnArgs.text, fnArgs.maxChars, fnArgs.maxChunks)]
  /\ UNCHANGED <<fnArgs, envVars, cacheVars, resolverVars, handlerVars, pc, url, override, response>>

InitFunctions ==
  /\ Idle
  /\ cacheConfigured /\ apiKeySet
  /\ fnArgs \in SplitInputs \cup FetchInputs \cup UrlInputs \cup SegmentInputs \cup JsonInputs
                \cup HtmlInputs \cup TrackInputs \cup TimestampInputs
  /\ fnRet = Null

NextFunctions ==
  \/ ApplySplitIntoChunks
  \/ ApplyFetchWithRetry
  \/ ApplyParseStartSecondsFromUrl
  \/ ApplyBuildTimestampedTranscript
  \/ ApplyParseJsonLenient
  \/ ApplyExtractBalanced
  \/ ApplyTryTimedTextFromList
  \/ ApplyFormatTimestamp

SpecFunctions == InitFunctions /\ [][NextFunctions]_vars

\* ================================================================== claims
StageOrder == <<"override", "cache", "direct", "list", "watch">>

Strategies == {"direct", "list", "watch"}

FetchSources == {"timedtext", "timedtext_list", "watch", "innertube"}

\* C1: within one request the resolver attempts its stages in the order
\* override, cache, direct, list, watch; a stage is attempted only when every
\* earlier stage produced no result, and after a stage produced a result no
\* further stage is attempted.
C1_StagesInOrder ==
  \A r \in Requests :
    /\ Len(trail[r]) <= Len(StageOrder)
    /\ \A i \in 1..Len(trail[r]) :
         /\ trail[r][i].stage = StageOrder[i]
         /\ i < Len(trail[r]) => trail[r][i].outcome # "result"
    /\ (\E i \in 1..Len(trail[r]) : trail[r][i].outcome = "result")
         => pc[r] \notin {"override", "cache", "direct", "list", "watch"}

\* the last stage produced the result after the four before it produced none
C1_Witness ==
  \E r \in Requests :
    /\ Len(trail[r]) = 5
    /\ trail[r][5].outcome = "result"
    /\ \A i \in 1..4 : trail[r][i].outcome = "none"

\* a request whose transcript has been handed to formatting and synthesis
Downstream(r) == pc[r] \in {"chunk", "final"} \/ (pc[r] = "done" /\ genCalls[r] # <<>>)

\* C2 as stated: every result handed downstream, whatever its source, has a
\* non-empty transcript and more than 10 segments.
C2_AsStated ==
  \A r \in Requests :
    Downstream(r) => result[r].transcript # <<>> /\ Len(result[r].segments) > 10

\* C2 (amended): every result handed downstream has a non-empty transcript;
\* it has more than 10 segments unless its source is the override, which
\* carries no segments at all.
C2_UsableDownstream ==
  \A r \in Requests :
    Downstream(r) =>
      /\ result[r] # Null
      /\ result[r].transcript # <<>>
      /\ result[r].source # "override" => Len(result[r].segments) > 10
      /\ result[r].source = "override" => Len(result[r].segments) = 0

\* an accepted override reached the synthesis without segments
C2_Witness ==
  \E r \in Requests :
    /\ pc[r] = "final"
    /\ result[r].source = "override"
    /\ result[r].segments = <<>>
    /\ StrLen(result[r].transcript) = 200

\* C3: whatever a fetch strategy returns as a result has more than 10 segments
\* and more than 200 characters; a parse below either threshold is reported
\* as a failure.
C3_StrategyResultUsable ==
  \A r \in Requests :
    fetched[r] # Null =>
      /\ fetched[r].source \in FetchSources
      /\ Len(fetched[r].segments) > 10
      /\ StrLen(fetched[r].transcript) > 200

\* a strategy returned the smallest body of the catalogue that passes
C3_Witness ==
  \E r \in Requests :
    /\ pc[r] = "save"
    /\ fetched[r].source = "innertube"
    /\ Len(fetched[r].segments) = 11
    /\ StrLen(fetched[r].transcript) = 208

\* the request was not served by override or cache and each of the three
\* strategies ran and yielded nothing
AllStrategiesFailed(r) ==
  /\ Len(trail[r]) = 5
  /\ \A i \in 1..4 : trail[r][i].outcome = "none"
  /\ trail[r][5].outcome \in {"none", "threw"}

\* C4: when override and cache give nothing and all three strategies yield no
\* usable transcript, the response is success:false with NO_TRANSCRIPT and the
\* request issues no generator call.
C4_NoTranscript ==
  \A r \in Requests :
    AllStrategiesFailed(r) =>
      /\ pc[r] \in {"resolved", "done"}
      /\ result[r] = Null
      /\ genCalls[r] = <<>>
      /\ pc[r] = "done" =>
           /\ response[r].success = FALSE
           /\ response[r].errorCode = "NO_TRANSCRIPT"

C4_Witness ==
  \E r \in Requests :
    /\ AllStrategiesFailed(r)
    /\ trail[r][5].outcome = "threw"
    /\ pc[r] = "done"
    /\ response[r].errorCode = "NO_TRANSCRIPT"

\* C5: a strategy that fails, by throwing or by returning null, is absorbed by
\* the resolver, which goes on to the next one; a request that got as far as
\* the resolver ends in an error only as NO_TRANSCRIPT after all three
\* strategies are exhausted, or after a generator call failed.
C5_FailuresAbsorbed ==
  \A r \in Requests :
    (pc[r] = "done" /\ trail[r] # <<>> /\ ~response[r].success) =>
      \/ response[r].errorCode = "NO_TRANSCRIPT" /\ AllStrategiesFailed(r)
      \/ genCalls[r] # <<>>

\* the rows of the table for one video
RowsOf(v) == {row \in cache : row.video_id = v}

\* the row an upsert of a strategy's result writes
RowFor(v, res) ==
  [video_id |-> v, transcript |-> res.transcript, segments |-> res.segments,
   lang |-> res.lang, source |-> res.source]

\* r2 reads the cache after r1 has resolved the same video through a strategy
SecondRun(r1, r2) ==
  /\ r1 # r2
  /\ pc[r1] = "resolved"
  /\ result[r1] # Null
  /\ result[r1].source \in FetchSources
  /\ url[r1].videoId = url[r2].videoId
  /\ pc[r2] = "cache"
  /\ pc'[r2] # "cache"

ServedFromCacheOf(r1, r2) ==
  /\ pc'[r2] = "resolved"
  /\ result'[r2] # Null
  /\ result'[r2].usedCache
  /\ result'[r2].source = "cache"
  /\ result'[r2].transcript = result[r1].transcript
  /\ result'[r2].segments = result[r1].segments
  /\ fetched'[r2] = Null

C7_CacheFailuresHarmless ==
  [][\A r \in Requests :
       /\ (pc[r] = "cache" /\ pc'[r] # "cache") =>
            /\ response'[r] = Null
            /\ cacheRead'[r] = "failed" => (pc'[r] = "direct" /\ result'[r] = Null)
       /\ (pc[r] = "save" /\ pc'[r] # "save") =>
            /\ response'[r] = Null
            /\ pc'[r] = "resolved"
            /\ result'[r] = fetched[r]]_vars

\* a request succeeded although the configured cache failed both its read and
\* its write
C7_Witness ==
  \E r \in Requests :
    /\ cacheConfigured
    /\ pc[r] = "done"
    /\ response[r].success
    /\ cacheRead[r] = "failed"
    /\ cacheWrite[r] = "failed"
    /\ result[r] = fetched[r]

\* C8: the table changes only by the upsert, keyed by the video id, that the
\* resolver issues right after a strategy returned a result; requests served
\* by the override or by the cache, and requests that found no transcript,
\* have written nothing; no video ever loses its row.
C8_CacheChangedOnlyBySave ==
  /\ [][/\ cache' # cache =>
             \E r \in Requests :
               /\ pc[r] = "save" /\ pc'[r] = "resolved"
               /\ fetched[r] # Null
               /\ trail[r][Len(trail[r])].stage \in Strategies
               /\ trail[r][Len(trail[r])].outcome = "result"
               /\ cache' = {row \in cache : row.video_id # url[r].videoId}
                             \cup {RowFor(url[r].videoId, fetched[r])}
        /\ \A v \in VideoIds : RowsOf(v) # {} => \E row \in cache' : row.video_id = v]_vars
  /\ [](\A r \in Requests :
          (pc[r] = "resolved" /\ (result[r] = Null \/ result[r].source \in {"override", "cache"}))
            => cacheWrite[r] = "none")

\* two requests for different videos have both written: the second upsert
\* left the row of the other video in place
C8_Witness ==
  \E r1, r2 \in Requests :
    /\ url[r1].videoId # url[r2].videoId
    /\ pc[r1] = "resolved" /\ cacheWrite[r1] = "ok"
    /\ pc[r2] = "resolved" /\ cacheWrite[r2] = "ok"
    /\ RowFor(url[r1].videoId, fetched[r1]) \in cache
    /\ RowFor(url[r2].videoId, fetched[r2]) \in cache
    /\ Cardinality(cache) = 2

\* C9: however concurrent requests for one video interleave, the table holds
\* at most one row for the video, that row is in every column the record of
\* the last upsert for it, and each request returns the result it fetched.
C9_LastUpsertWins ==
  /\ \A v \in VideoIds :
       /\ Cardinality(RowsOf(v)) <= 1
       /\ lastWriter[v] = 0 => RowsOf(v) = {}
       /\ lastWriter[v] # 0 => RowsOf(v) = {RowFor(v, fetched[lastWriter[v]])}
  /\ \A r \in Requests :
       (pc[r] = "resolved" /\ fetched[r] # Null) => result[r] = fetched[r]

\* two requests for one video both missed the cache, fetched different
\* transcripts and both wrote
C9_Witness ==
  \E r1, r2 \in Requests :
    /\ r1 # r2
    /\ url[r1].videoId = url[r2].videoId
    /\ pc[r1] = "resolved" /\ pc[r2] = "resolved"
    /\ cacheWrite[r1] = "ok" /\ cacheWrite[r2] = "ok"
    /\ fetched[r1].transcript # fetched[r2].transcript
    /\ lastWriter[url[r1].videoId] = r2
    /\ RowsOf(url[r1].videoId) = {RowFor(url[r1].videoId, fetched[r2])}
    /\ result[r1] = fetched[r1]

\* C10: when the result has segments and the start offset lies beyond the
\* start of every one of them, the segments and transcript used downstream are
\* the unfiltered ones; the offset filter never turns a non-empty segment list
\* into empty segments or an empty transcript.
C10_OffsetBeyondEnd ==
  \A r \in Requests :
    (Downstream(r) /\ result[r].segments # <<>>) =>
      /\ segments[r] # <<>>
      /\ transcript[r] # <<>>
      /\ (\A i \in 1..Len(result[r].segments) : result[r].segments[i].start < url[r].start) =>
           /\ segments[r] = result[r].segments
           /\ transcript[r] = result[r].transcript

C10_Witness ==
  \E r \in Requests :
    /\ pc[r] = "final"
    /\ url[r].start = 1000
    /\ Len(result[r].segments) > MinSegments
    /\ \A i \in 1..Len(result[r].segments) : result[r].segments[i].start < url[r].start
    /\ segments[r] = result[r].segments
    /\ transcript[r] = result[r].transcript

\* the segments of segs that start at or after t, in their order
RECURSIVE FromOffset(_, _)
FromOffset(segs, t) ==
  IF segs = <<>> THEN <<>>
  ELSE (IF Head(segs).start >= t THEN <<Head(segs)>> ELSE <<>>) \o FromOffset(Tail(segs), t)

\* the text handed to the generator is made of the segments and transcript in
\* effect and of nothing else
InputFromEffective(r) ==
  formatted[r] = IF Len(segments[r]) > 10
                 THEN buildTimestampedTranscript(segments[r], 12)
                 ELSE transcript[r]

\* C11: with a start offset above 0 and at least one segment starting at or
\* after it, the segments used downstream are exactly the segments with
\* start >= offset in their original order, the transcript is their texts
\* joined by single spaces, and the generator input is built from these only.
C11_OffsetFilters ==
  \A r \in Requests :
    (/\ Downstream(r)
     /\ url[r].start > 0
     /\ \E i \in 1..Len(result[r].segments) : result[r].segments[i].start >= url[r].start) =>
      /\ segments[r] = FromOffset(result[r].segments, url[r].start)
      /\ \A i \in 1..Len(segments[r]) : segments[r][i].start >= url[r].start
      /\ transcript[r] = Join(Texts(segments[r]), Run(" ", 1))
      /\ InputFromEffective(r)

\* the offset fell on the start of a segment in the middle of the transcript:
\* the earlier segments are gone and that segment is the first one left
C11_Witness ==
  \E r \in Requests :
    /\ pc[r] = "final"
    /\ url[r].start = 30
    /\ segments[r] # <<>>
    /\ Len(segments[r]) < Len(result[r].segments)
    /\ segments[r][1].start = 30
    /\ result[r].segments[1].start = 0

\* the latest end of a non-empty list of segments
LatestEnd(segs) ==
  CHOOSE m \in {segs[i].start + segs[i].duration : i \in 1..Len(segs)} :
    \A i \in 1..Len(segs) : segs[i].start + segs[i].duration <= m

\* C12: the duration of a success envelope is the maximum of start+duration
\* over the segments in effect after the offset filter, formatted as a
\* timestamp, and it is "Unknown" only when there are no segments.
C12_DurationOfSegmentsInEffect ==
  \A r \in Requests :
    (pc[r] = "done" /\ response[r].success) =>
      /\ segments[r] # <<>> =>
           response[r].notes.duration = formatTimestamp(LatestEnd(segments[r]))
      /\ response[r].notes.duration = Unknown => segments[r] = <<>>

\* C13: the synthesis mode depends on the length L of the formatted transcript
\* alone: with L <= 24000 the request issues exactly one generator call, the
\* final synthesis carrying the whole formatted transcript, and no chunk
\* summary call; with L > 24000 it issues chunk summary calls, and its final
\* call carries the combined chunk summaries, not the transcript.
C13_ModeByLength ==
  \A r \in Requests :
    Downstream(r) =>
      IF StrLen(formatted[r]) <= 24000
      THEN /\ pc[r] # "chunk"
           /\ Len(genCalls[r]) <= 1
           /\ pc[r] = "done" => Len(genCalls[r]) = 1
           /\ \A i \in 1..Len(genCalls[r]) :
                /\ genCalls[r][i].kind = "final"
                /\ genCalls[r][i].input.mode = "transcript"
                /\ genCalls[r][i].input.body = formatted[r]
      ELSE /\ pc[r] \in {"final", "done"} =>
                genCalls[r] # <<>> /\ genCalls[r][1].kind = "chunk"
           /\ \A i \in 1..Len(genCalls[r]) :
                genCalls[r][i].kind = "final" =>
                  /\ i = Len(genCalls[r]) /\ i > 1
                  /\ genCalls[r][i].input.mode = "summaries"
                  /\ genCalls[r][i].input.body = chunkSummaries[r]
                  /\ genCalls[r][i].input.body # formatted[r]

\* a long transcript went through the chunk summaries and its final call
\* carried them
C13_Witness ==
  \E r \in Requests :
    /\ pc[r] = "done"
    /\ response[r].success
    /\ StrLen(formatted[r]) > 24000
    /\ Len(genCalls[r]) > 1
    /\ genCalls[r][Len(genCalls[r])].kind = "final"
    /\ genCalls[r][Len(genCalls[r])].input.body = chunkSummaries[r]

\* a finished request in chunked mode none of whose generator calls failed:
\* every chunk call returned a summary with its list of key points, and the
\* final call returned an object
AllCallsSucceeded(r) ==
  /\ pc[r] = "done"
  /\ StrLen(formatted[r]) > 24000
  /\ Len(chunkSummaries[r]) = Cardinality({i \in 1..Len(genCalls[r]) : genCalls[r][i].kind = "chunk"})
  /\ \A i \in 1..Len(chunkSummaries[r]) : chunkSummaries[r][i].chunkKeyPoints.isArray
  /\ response[r].success \/ response[r].errorCode = "PARSE_ERROR"

\* min(ceil(len / 18000), 6)
ExpectedChunkCalls(len) ==
  IF (len + 17999) \div 18000 < 6 THEN (len + 17999) \div 18000 ELSE 6

\* C14: in chunked mode a request whose generator calls all succeed issues
\* exactly min(ceil(L/18000), 6) chunk summary calls, then exactly one final
\* synthesis call; for L = 50000 these are 3 chunk calls and 4 calls in all.
C14_ChunkCallCount ==
  \A r \in Requests :
    AllCallsSucceeded(r) =>
      LET n == ExpectedChunkCalls(StrLen(formatted[r])) IN
      /\ Len(genCalls[r]) = n + 1
      /\ \A i \in 1..n : genCalls[r][i].kind = "chunk"
      /\ genCalls[r][n + 1].kind = "final"
      /\ StrLen(formatted[r]) = 50000 => n = 3 /\ Len(genCalls[r]) = 4

\* the 50000 characters were summarised in three chunks and one final call
C14_Witness ==
  \E r \in Requests :
    /\ AllCallsSucceeded(r)
    /\ response[r].success
    /\ StrLen(formatted[r]) = 50000
    /\ Len(genCalls[r]) = 4
    /\ Len(chunkSummaries[r]) = 3

\* C15: within one request the generator calls are made one at a time: chunk
\* call i+1 is issued only after call i has returned its summary, in
\* increasing chunk order; the final call is issued only after every chunk
\* call has returned; every call has returned before the next step of the
\* request; and after a failed chunk call the request issues no further call.
C15_OneCallAtATime ==
  [][\A r \in Requests :
       (genCalls'[r] # genCalls[r] /\ genCalls'[r] # <<>>) =>
         LET k == Len(genCalls[r])
             call == genCalls'[r][k + 1]
         IN /\ Len(genCalls'[r]) = k + 1
            /\ SubSeq(genCalls'[r], 1, k) = genCalls[r]
            /\ Len(chunkSummaries[r]) = k
            /\ \A i \in 1..k : genCalls[r][i].kind = "chunk" /\ genCalls[r][i].index = i
            /\ call.kind = "chunk" =>
                 /\ call.index = k + 1
                 /\ call.index <= call.of
                 /\ Len(chunkSummaries'[r]) = k + 1 \/ pc'[r] = "done"
            /\ call.kind = "final" =>
                 /\ k > 0 => k = genCalls[r][k].of
                 /\ pc'[r] = "done"]_vars

\* the second chunk call failed after the first had returned: the request
\* ended there, without a third call
C15_Witness ==
  \E r \in Requests :
    /\ pc[r] = "done"
    /\ Len(genCalls[r]) = 2
    /\ genCalls[r][2].kind = "chunk"
    /\ genCalls[r][2].of > 2
    /\ Len(chunkSummaries[r]) = 1
    /\ ~response[r].success
    /\ response[r].errorCode = "RATE_LIMIT"

\* a call of splitIntoChunks that has returned
SplitReturned == fnArgs # Null /\ fnArgs.fn = "splitIntoChunks" /\ fnRet # Null

\* chunks.join("")
Concatenated(chunks) == Join(chunks, <<>>)

\* the character at position i (from 1) of a text
RECURSIVE CharAt(_, _)
CharAt(s, i) == IF i <= Head(s).n THEN Head(s).c ELSE CharAt(Tail(s), i - Head(s).n)

\* t is the text of s from position `from` (from 0) on, StrLen(t) characters
SubstringAt(t, s, from) ==
  /\ from + StrLen(t) <= StrLen(s)
  /\ \A j \in 1..StrLen(t) : CharAt(t, j) = CharAt(s, from + j)

\* C16 as stated: the chunks of splitIntoChunks(text, maxChars, maxChunks),
\* concatenated in order, give text back exactly, whatever the length of the
\* text, the chunk size and the maximum number of chunks.
C16_AsStated ==
  SplitReturned => Concatenated(fnRet.value) = fnArgs.text

\* C16 (amended): the concatenated chunks are the first maxChars * maxChunks
\* characters of text, without loss or duplication: all of text when it is no
\* longer than that, and text cut there when it is.
C16_RoundTripUpToCapacity ==
  SplitReturned =>
    LET whole == Concatenated(fnRet.value)
        capacity == fnArgs.maxChars * fnArgs.maxChunks
    IN /\ StrLen(whole) = Min(StrLen(fnArgs.text), capacity)
       /\ SubstringAt(whole, fnArgs.text, 0)
       /\ StrLen(fnArgs.text) <= capacity <=> whole = fnArgs.text

\* a text longer than six chunks of 18000 characters came back cut
C16_Witness ==
  /\ SplitReturned
  /\ fnArgs.maxChars = 18000 /\ fnArgs.maxChunks = 6
  /\ StrLen(fnArgs.text) > 108000
  /\ StrLen(Concatenated(fnRet.value)) = 108000

\* C17: for maxChars >= 1 splitIntoChunks returns at most maxChunks chunks,
\* each non-empty and of at most maxChars characters, every chunk but the last
\* of exactly maxChars characters, chunk k (from 0) being the substring of
\* text at offsets [k*maxChars, (k+1)*maxChars), and the chunks concatenated
\* being a prefix of text.
C17_ChunkShape ==
  (SplitReturned /\ fnArgs.maxChars >= 1) =>
    LET chunks == fnRet.value IN
    /\ Len(chunks) <= fnArgs.maxChunks
    /\ \A k \in 1..Len(chunks) :
         /\ chunks[k] # <<>>
         /\ StrLen(chunks[k]) <= fnArgs.maxChars
         /\ k < Len(chunks) => StrLen(chunks[k]) = fnArgs.maxChars
         /\ StrLen(chunks[k]) = Min(fnArgs.maxChars, StrLen(fnArgs.text) - (k - 1) * fnArgs.maxChars)
         /\ SubstringAt(chunks[k], fnArgs.text, (k - 1) * fnArgs.maxChars)
    /\ SubstringAt(Concatenated(chunks), fnArgs.text, 0)

\* seven letters in chunks of three, two chunks allowed: "abc", "def"
C17_Witness ==
  /\ SplitReturned
  /\ fnArgs.text = LettersText(7)
  /\ fnArgs.maxChars = 3 /\ fnArgs.maxChunks = 2
  /\ fnRet.value = <<LettersText(3), Lit(<<"d", "e", "f">>)>>

\* the request ended, at call i, in an error envelope
EndedInErrorAt(r, i) ==
  /\ i = Len(genCalls[r])
  /\ pc[r] = "done"
  /\ response[r].success = FALSE

\* C18: whichever generator call of a request it answers, chunk summary or
\* final synthesis, an HTTP 429 ends the request with success:false and
\* errorCode RATE_LIMIT and an HTTP 402 with success:false and errorCode
\* PAYMENT_REQUIRED; any other status outside 200..299, and an empty
\* response, end it with success:false and neither of the two codes.
C18_GatewayErrorCodes ==
  \A r \in Requests :
    \A i \in 1..Len(genCalls[r]) :
      LET a == genCalls[r][i].answer IN
      a # NetworkError =>
        /\ a.status = 429 => EndedInErrorAt(r, i) /\ response[r].errorCode = "RATE_LIMIT"
        /\ a.status = 402 => EndedInErrorAt(r, i) /\ response[r].errorCode = "PAYMENT_REQUIRED"
        /\ (\/ a.status \notin (200..299) \cup {429, 402}
            \/ a.status \in 200..299 /\ a.payload = [kind |-> "empty"]) =>
             /\ EndedInErrorAt(r, i)
             /\ response[r].errorCode \notin {"RATE_LIMIT", "PAYMENT_REQUIRED"}

\* the final synthesis call of a chunked request was answered 402
C18_Witness ==
  \E r \in Requests :
    /\ Len(genCalls[r]) > 1
    /\ genCalls[r][Len(genCalls[r])].kind = "final"
    /\ genCalls[r][Len(genCalls[r])].answer # NetworkError
    /\ genCalls[r][Len(genCalls[r])].answer.status = 402
    /\ response[r] = ErrorResponse("Usage limit reached. Please add credits to continue.", "PAYMENT_REQUIRED")

\* C19: when the output of the final synthesis call cannot be parsed into an
\* object by any stage of the lenient parsing, the request ends with
\* success:false and errorCode PARSE_ERROR.
C19_UnparsableIsParseError ==
  \A r \in Requests :
    \A i \in 1..Len(genCalls[r]) :
      LET a == genCalls[r][i].answer IN
      (/\ genCalls[r][i].kind = "final"
       /\ a # NetworkError
       /\ HttpOk(a)
       /\ a.payload = [kind |-> "malformed"]) =>
        /\ pc[r] = "done"
        /\ response[r].success = FALSE
        /\ response[r].errorCode = "PARSE_ERROR"

\* the object the final synthesis call of r was answered with, if it was
ParsedNotes(r) ==
  {genCalls[r][i].answer.payload : i \in
     {j \in 1..Len(genCalls[r]) :
        /\ genCalls[r][j].kind = "final"
        /\ genCalls[r][j].answer # NetworkError
        /\ HttpOk(genCalls[r][j].answer)
        /\ genCalls[r][j].answer.payload.kind = "object"}}

\* C20: a success envelope is produced only when the parsed object of the
\* synthesizer has a non-empty title, a non-empty summary, an array keyPoints
\* and an array sections; when one of the four fails the response is
\* success:false with errorCode PARSE_ERROR and carries no notes.
C20_NotesValidated ==
  \A r \in Requests :
    pc[r] = "done" =>
      /\ response[r].success =>
           \E o \in ParsedNotes(r) :
             /\ o.title # "" /\ o.summary # "" /\ o.keyPoints.isArray /\ o.sections.isArray
             /\ response[r].notes.title = o.title
             /\ response[r].notes.summary = o.summary
             /\ response[r].notes.keyPoints = o.keyPoints
             /\ response[r].notes.sections = o.sections
      /\ \A o \in ParsedNotes(r) :
           (o.title = "" \/ o.summary = "" \/ ~o.keyPoints.isArray \/ ~o.sections.isArray) =>
             /\ response[r].success = FALSE
             /\ response[r].errorCode = "PARSE_ERROR"
             /\ "notes" \notin DOMAIN response[r]

\* an object whose sections are not an array was refused
C20_Witness ==
  \E r \in Requests :
    /\ pc[r] = "done"
    /\ ParsedNotes(r) = {NotesObject("T", "S", Arr(2), NotArray)}
    /\ response[r] = ErrorResponse("Failed to parse notes. Please try again.", "PARSE_ERROR")

\* C21: in every success envelope notes.keyPoints and notes.sections are
\* non-empty arrays, and title and summary are non-empty.
C21_NotesNonEmpty ==
  \A r \in Requests :
    (pc[r] = "done" /\ response[r].success) =>
      /\ response[r].notes.title # ""
      /\ response[r].notes.summary # ""
      /\ response[r].notes.keyPoints.isArray /\ response[r].notes.keyPoints.length > 0
      /\ response[r].notes.sections.isArray /\ response[r].notes.sections.length > 0

ErrorCodes ==
  {"BAD_REQUEST", "INVALID_URL", "AI_NOT_CONFIGURED", "NO_TRANSCRIPT", "RATE_LIMIT",
   "PAYMENT_REQUIRED", "PARSE_ERROR"}

\* C22: every response with success:false carries a non-empty error message
\* and an errorCode among BAD_REQUEST, INVALID_URL, AI_NOT_CONFIGURED,
\* NO_TRANSCRIPT, RATE_LIMIT, PAYMENT_REQUIRED and PARSE_ERROR, on every path
\* that ends a request in error.
C22_ErrorsCarryCode ==
  \A r \in Requests :
    (pc[r] = "done" /\ ~response[r].success) =>
      /\ response[r].error # ""
      /\ response[r].errorCode \in ErrorCodes

\* no title lookup, cache access, caption fetch or generator call was made
NoNetworkCall(r) ==
  /\ title[r] = ""
  /\ trail[r] = <<>>
  /\ cacheRead[r] = "none" /\ cacheWrite[r] = "none"
  /\ fetched[r] = Null /\ result[r] = Null
  /\ genCalls[r] = <<>>

\* C23: a request without videoUrl, without generator API key, or with a URL
\* holding no 11-character video id is rejected (BAD_REQUEST,
\* AI_NOT_CONFIGURED, INVALID_URL) before any network call: no title lookup,
\* cache access, caption fetch or generator call occurs in it.
C23_RejectedBeforeNetwork ==
  \A r \in Requests :
    /\ (pc[r] # "idle" /\ (~url[r].given \/ ~apiKeySet \/ url[r].videoId = NoVideoId)) =>
         /\ pc[r] = "done"
         /\ response[r].success = FALSE
         /\ response[r].errorCode =
              IF ~url[r].given THEN "BAD_REQUEST"
              ELSE IF ~apiKeySet THEN "AI_NOT_CONFIGURED"
              ELSE "INVALID_URL"
         /\ NoNetworkCall(r)
    /\ (pc[r] = "done" /\ ~response[r].success
        /\ response[r].errorCode \in {"BAD_REQUEST", "AI_NOT_CONFIGURED", "INVALID_URL"}) =>
         NoNetworkCall(r)

\* a URL without video id was refused although the key is set
C23_Witness ==
  \E r \in Requests :
    /\ pc[r] = "done"
    /\ url[r].given /\ apiKeySet /\ url[r].videoId = NoVideoId
    /\ response[r] = ErrorResponse("Invalid YouTube URL", "INVALID_URL")
    /\ NoNetworkCall(r)

\* C24: every request other than OPTIONS is answered, on every path, with
\* the HTTP status 200 and a JSON body whose success field is a boolean; this
\* includes the exceptions caught by the handler and a request body that
\* does not parse (read as {}, hence as a request without videoUrl). An error
\* is never signalled through the transport status.
C24_AlwaysStatus200 ==
  \A r \in Requests :
    pc[r] = "done" =>
      /\ response[r] # Null
      /\ response[r].status = 200
      /\ response[r].success \in BOOLEAN
      /\ ~response[r].success => "error" \in DOMAIN response[r]

\* an exception nobody expected, the join on missing key points, was caught
\* and answered
C24_Witness ==
  \E r \in Requests :
    /\ pc[r] = "done"
    /\ response[r].status = 200
    /\ ~response[r].success
    /\ response[r].error = JoinTypeError.message

\* a call of fetchWithRetry that has returned or thrown
FetchReturned == fnArgs # Null /\ fnArgs.fn = "fetchWithRetry" /\ fnRet # Null

\* the answer to request i was a response whose status asks for a retry
Retriable(i) ==
  /\ fnArgs.answers[i] # NetworkError
  /\ fnArgs.answers[i].status \in fnArgs.opts.retryOn

\* C25: fetchWithRetry returns after one request when the status of the
\* response is not in its retry set, repeats the request only while the
\* status is in the retry set, makes at most retries+1 requests (at most 3
\* at each of its call sites), and then returns the last response instead of
\* throwing.
C25_BoundedRetry ==
  FetchReturned =>
    LET n == fnRet.requests IN
    /\ n \in 1..(fnArgs.opts.retries + 1)
    /\ fnArgs.opts \in CallSites => n <= 3
    /\ \A i \in 1..(n - 1) : Retriable(i)
    /\ (fnArgs.answers[1] # NetworkError /\ ~Retriable(1)) =>
         n = 1 /\ fnRet.value = fnArgs.answers[1]
    /\ fnArgs.answers[n] # NetworkError =>
         /\ fnRet.value = fnArgs.answers[n]
         /\ Retriable(n) => n = fnArgs.opts.retries + 1

\* three answers 503 in a row at a call site: the third one was returned
C25_Witness ==
  /\ FetchReturned
  /\ fnArgs.opts.site = "watch"
  /\ \A i \in 1..3 : fnArgs.answers[i] = [status |-> 503]
  /\ fnRet.requests = 3
  /\ fnRet.value = [status |-> 503]

\* a call made by one of the fetch strategies has returned or thrown
StrategyCallReturned ==
  /\ FetchReturned
  /\ fnArgs.opts.site \in {"timedtext", "list", "listed track", "watch", "innertube", "selected track"}

\* request i was answered with one of the statuses and was not the last
\* request the budget allows
AnsweredWithin(i, statuses) ==
  /\ i <= fnArgs.opts.retries
  /\ fnArgs.answers[i] # NetworkError
  /\ fnArgs.answers[i].status \in statuses

\* C30 as stated: every upstream call of every fetch strategy is retried
\* when it answers 429, 500, 502, 503 or 504, as long as budget remains.
C30_AsStated ==
  StrategyCallReturned =>
    \A i \in 1..fnRet.requests :
      AnsweredWithin(i, {429, 500, 502, 503, 504}) => fnRet.requests > i

\* C30: the caption endpoints, the track list and a listed track are retried
\* on 429, 500, 502, 503 and 504; the watch page, the internal player API and
\* the selected track URL are retried on 429 and 503 only, and a 500, 502 or
\* 504 from them is returned at once; in both cases as long as budget remains.
C30_RetrySetPerCall ==
  StrategyCallReturned =>
    \A i \in 1..fnRet.requests :
      IF fnArgs.opts.site \in {"timedtext", "list", "listed track"}
      THEN AnsweredWithin(i, {429, 500, 502, 503, 504}) => fnRet.requests > i
      ELSE /\ AnsweredWithin(i, {429, 503}) => fnRet.requests > i
           /\ AnsweredWithin(i, {500, 502, 504}) =>
                fnRet.requests = i /\ fnRet.value = fnArgs.answers[i]

\* the player API answered 429 and then 500: the 500 was returned with one
\* retry left
C30_Witness ==
  /\ StrategyCallReturned
  /\ fnArgs.opts.site = "innertube"
  /\ fnArgs.answers[1] = [status |-> 429]
  /\ fnArgs.answers[2] = [status |-> 500]
  /\ fnRet.requests = 2
  /\ fnRet.value = [status |-> 500]

\* a call of parseStartSecondsFromUrl that has returned
ParsedStart == fnArgs # Null /\ fnArgs.fn = "parseStartSecondsFromUrl" /\ fnRet # Null

\* the value the claim speaks of: that of t, or of start when t is absent or
\* empty; NullString when there is none
ValueInEffect ==
  LET named(n) == {i \in 1..Len(fnArgs.params) : fnArgs.params[i].name = n}
      valueOf(n) == fnArgs.params[CHOOSE i \in named(n) : \A k \in named(n) : i <= k].value
  IN IF named("t") # {} /\ valueOf("t") # <<>> THEN valueOf("t")
     ELSE IF named("start") # {} THEN valueOf("start")
     ELSE NullString

\* p is empty or digits followed by the unit; its number of units
IsPart(p, unit) == p = <<>> \/ (p[Len(p)] = unit /\ OnlyDigits(SubSeq(p, 1, Len(p) - 1)))
PartValue(p) == IF p = <<>> THEN 0 ELSE NumberOfDigits(SubSeq(p, 1, Len(p) - 1))

\* the cuts of v into an hours part, a minutes part and a seconds part
Cuts(v) ==
  {cut \in (0..Len(v)) \X (0..Len(v)) :
     /\ cut[1] <= cut[2]
     /\ IsPart(SubSeq(v, 1, cut[1]), "h")
     /\ IsPart(SubSeq(v, cut[1] + 1, cut[2]), "m")
     /\ IsPart(SubSeq(v, cut[2] + 1, Len(v)), "s")}

\* what the three forms give for v, and 0 for a value of none of them
SecondsOfForms(v) ==
  IF v = NullString \/ v = <<>> THEN 0
  ELSE IF OnlyDigits(v) THEN NumberOfDigits(v)
  ELSE IF Cuts(v) # {}
       THEN LET cut == CHOOSE c \in Cuts(v) : TRUE IN
            3600 * PartValue(SubSeq(v, 1, cut[1]))
              + 60 * PartValue(SubSeq(v, cut[1] + 1, cut[2]))
              + PartValue(SubSeq(v, cut[2] + 1, Len(v)))
       ELSE 0

\* C26: parseStartSecondsFromUrl returns n for a value of digits n, n for
\* digits followed by s, 3600h + 60m + s for a value of the form HhMmSs with
\* any part optional, and 0 when there is no value, when the value has none
\* of these forms or when the URL does not parse; it is never negative.
C26_StartSecondsOfForms ==
  ParsedStart =>
    /\ fnRet.value >= 0
    /\ fnRet.value = (IF fnArgs.parses THEN SecondsOfForms(ValueInEffect) ELSE 0)

\* a call of buildTimestampedTranscript that has returned
BuiltTimestamped == fnArgs # Null /\ fnArgs.fn = "buildTimestampedTranscript" /\ fnRet # Null

\* the lines of a text: the pieces between its line breaks, none for the
\* empty text
RECURSIVE SplitLines(_)
SplitLines(s) ==
  LET breaks == {i \in 1..Len(s) : s[i].c = "\n"} IN
  IF breaks = {} THEN <<s>>
  ELSE LET i == CHOOSE b \in breaks : \A k \in breaks : b <= k
           after == SubSeq(s, i + 1, Len(s))
       IN <<SubSeq(s, 1, i - 1)>>
            \o SplitLines(IF s[i].n > 1 THEN <<[c |-> "\n", n |-> s[i].n - 1]>> \o after ELSE after)

LinesOf(s) == IF s = <<>> THEN <<>> ELSE SplitLines(s)

\* the line for segments first..last: the start time of the first one in
\* brackets, a blank, and their texts a blank apart
ExpectedLine(segs, first, last) ==
  Cat(Run("[", 1),
      Cat(formatTimestamp(segs[first].start),
          Cat(Run("]", 1),
              Cat(Run(" ", 1),
                  Join([j \in 1..(last - first + 1) |-> segs[first + j - 1].text], Run(" ", 1))))))

\* C27: for n segments of non-empty text and group size 12 the result has
\* ceil(n/12) lines; line k (from 0) carries the start time of segment 12k
\* and the texts of segments 12k..min(12k+11, n-1), in order, so that every
\* text is in exactly one line and the lines follow the segments.
C27_LinesOfTwelve ==
  BuiltTimestamped =>
    /\ Len(LinesOf(fnRet.value)) = (Len(fnArgs.segments) + 11) \div 12
    /\ \A k \in 0..(((Len(fnArgs.segments) + 11) \div 12) - 1) :
         LinesOf(fnRet.value)[k + 1] =
           ExpectedLine(fnArgs.segments, 12 * k + 1, Min(12 * k + 12, Len(fnArgs.segments)))

\* 25 segments 400 seconds apart: three lines, the last one for the 25th
\* segment alone, stamped 2:40:00
C27_Witness ==
  /\ BuiltTimestamped
  /\ Len(fnArgs.segments) = 25
  /\ fnArgs.segments[25].start = 9600
  /\ Len(LinesOf(fnRet.value)) = 3
  /\ LinesOf(fnRet.value)[3] =
       Cat(Lit(<<"[", "2", ":", "4", "0", ":", "0", "0", "]", " ">>), fnArgs.segments[25].text)

\* a call of parseJsonLenient that has returned or thrown
ParsedJson == fnArgs # Null /\ fnArgs.fn = "parseJsonLenient" /\ fnRet # Null

\* the text given to it was a rendering of an object
OfObject == "obj" \in DOMAIN fnArgs.object

\* C28: for any JSON object, parseJsonLenient recovers the same object from
\* its raw text, from the text in a json fence, from the text with prose
\* before and after its braces, and from the text with a comma before a
\* closing bracket or brace.
C28_SameObjectFromEachRendering ==
  (ParsedJson /\ OfObject) => fnRet = [value |-> fnArgs.object]

\* C29: no generator call, chunk summary or final synthesis, is issued for a
\* request whose transcript in effect has fewer than 200 characters, by
\* whichever path it came: override, cache or fetch, with or without the
\* offset filter.
C29_NoCallUnderTwoHundred ==
  \A r \in Requests :
    genCalls[r] # <<>> => StrLen(transcript[r]) >= 200

\* C31: fetchWithRetry sleeps only between two attempts: the sleep before
\* attempt k+1 (k from 0) lasts baseDelayMs * 2^k, a call of a attempts
\* sleeps a-1 times and never after its last attempt.
C31_SleepsBetweenAttempts ==
  FetchReturned =>
    /\ Len(fnRet.sleeps) = fnRet.requests - 1
    /\ \A k \in 1..Len(fnRet.sleeps) : fnRet.sleeps[k] = fnArgs.opts.baseDelayMs * 2^(k - 1)

\* the resolver of request r has gone through its override stage
PastOverride(r) == trail[r] # <<>>

\* C32: an override is used exactly when its trimmed length is at least 200;
\* when used, the request reads no cache, writes no cache and calls no fetch
\* strategy, and its result has source override, usedCache false and no
\* segments; a shorter override counts as absent and the request goes on to
\* the cache and the fetch strategies.
C32_OverrideUsedFromTwoHundred ==
  \A r \in Requests :
    PastOverride(r) =>
      /\ trail[r][1].stage = "override"
      /\ trail[r][1].outcome = "result" <=> StrLen(Trim(override[r])) >= 200
      /\ trail[r][1].outcome = "result" =>
           /\ Len(trail[r]) = 1
           /\ cacheRead[r] = "none" /\ cacheWrite[r] = "none"
           /\ fetched[r] = Null
           /\ result[r].source = "override"
           /\ result[r].usedCache = FALSE
           /\ result[r].segments = <<>>
      /\ trail[r][1].outcome # "result" =>
           /\ pc[r] = "cache" \/ (Len(trail[r]) >= 2 /\ trail[r][2].stage = "cache")
           /\ result[r] # Null => result[r].source # "override"
           /\ (Len(trail[r]) >= 2 /\ trail[r][2].outcome = "none") =>
                pc[r] = "direct" \/ (Len(trail[r]) >= 3 /\ trail[r][3].stage = "direct")

\* an override of 200 characters between blanks was returned at once
C32_Witness ==
  \E r \in Requests :
    /\ override[r] = PaddedOverride
    /\ pc[r] = "final"
    /\ trail[r] = <<[stage |-> "override", outcome |-> "result"]>>
    /\ result[r].source = "override"
    /\ cacheRead[r] = "none" /\ cacheWrite[r] = "none" /\ fetched[r] = Null

\* C33: parseJsonLenient tries the direct parse first: for an input that is
\* valid JSON as it stands the result is the direct parse of the whole input,
\* and the fenced block, the slice between braces and the comma stripping
\* count only when the direct parse fails.
C33_DirectParseFirst ==
  (ParsedJson /\ JSONParse(fnArgs.input) # Threw) => fnRet = JSONParse(fnArgs.input)

\* a call of extractBalancedJsonObjectAfterMarker that has returned
ExtractedBalanced ==
  fnArgs # Null /\ fnArgs.fn = "extractBalancedJsonObjectAfterMarker" /\ fnRet # Null

\* where the text stands after its characters from..i: outside a string
\* ("out"), inside one ("in"), or inside one right after a backslash ("esc")
ModeAfter(t, from, i) ==
  LET mode[k \in (from - 1)..i] ==
        IF k = from - 1 THEN "out"
        ELSE IF mode[k - 1] = "out" THEN (IF t[k] = "\"" THEN "in" ELSE "out")
        ELSE IF mode[k - 1] = "esc" THEN "in"
        ELSE IF t[k] = "\\" THEN "esc"
        ELSE IF t[k] = "\"" THEN "out"
        ELSE "in"
  IN mode[i]

\* the number of braces ch outside strings among the characters from..i
Counted(t, from, i, ch) ==
  Cardinality({k \in from..i : t[k] = ch /\ ModeAfter(t, from, k - 1) = "out"})

\* i holds a closing brace outside strings that brings the count back to zero
BalancedAt(t, from, i) ==
  /\ t[i] = "}" /\ ModeAfter(t, from, i - 1) = "out"
  /\ Counted(t, from, i, "{") = Counted(t, from, i, "}")

\* C34: extractBalancedJsonObjectAfterMarker returns the text from the first
\* opening brace after the first occurrence of the marker up to the first
\* closing brace that brings the count of braces outside double-quoted
\* strings back to zero, a backslash inside a string escaping the next
\* character; it returns null without marker, without opening brace, or when
\* the braces never balance.
C34_BalancedObjectAfterMarker ==
  ExtractedBalanced =>
    LET t == fnArgs.html
        markers == {i \in 1..Len(t) : t[i] = "m"}
        idx == CHOOSE i \in markers : \A k \in markers : i <= k
        opening == {i \in idx..Len(t) : t[i] = "{"}
        from == CHOOSE i \in opening : \A k \in opening : i <= k
        ends == {i \in from..Len(t) : BalancedAt(t, from, i)}
    IN IF markers = {} THEN fnRet.value = NullString
       ELSE IF opening = {} THEN fnRet.value = NullString
       ELSE IF ends = {} THEN fnRet.value = NullString
       ELSE fnRet.value = SubSeq(t, from, CHOOSE e \in ends : \A k \in ends : e <= k)

\* braces before the marker, and after it an object whose string holds an
\* escaped quote
C34_Witness ==
  /\ ExtractedBalanced
  /\ fnArgs.html = <<"{", "}", "m", "{", "\"", "\\", "\"", "\"", "}">>
  /\ fnRet.value = <<"{", "\"", "\\", "\"", "\"", "}">>

\* a call of tryTimedTextFromList that has ended
ListFetched ==
  fnArgs # Null /\ fnArgs.fn = "tryTimedTextFromList" /\ fnRet # Null

\* the language code starts with "en", in either case of its letters
EnglishCode(lang) ==
  Len(lang) >= 2 /\ lang[1] \in {"e", "E"} /\ lang[2] \in {"n", "N"}

\* the position in the list of the track the claim selects
FirstEnglishOrFirst(tracks) ==
  LET en == {i \in 1..Len(tracks) : EnglishCode(tracks[i].lang)} IN
  IF en = {} THEN 1 ELSE CHOOSE i \in en : \A k \in en : i <= k

\* the answers of a host that hold a transcript of more than 10 segments and
\* more than 200 characters: BodyA has 11 segments and 208 characters,
\* BodyTenSegments has 10 segments
UsableAnswers == {[status |-> 200, body |-> BodyA]}

\* C35: tryTimedTextFromList selects the first listed track whose language
\* code starts with "en" in any case, or the first track when there is none;
\* it fetches that track only, on each host in turn, and fails without trying
\* another track when the list is empty or the selected track gives no usable
\* transcript (a fetch that throws ends the call with its exception).
C35_OnlyTheSelectedTrack ==
  ListFetched =>
    IF fnArgs.tracks = <<>> THEN fnRet.value = Null
    ELSE LET lang == fnArgs.tracks[FirstEnglishOrFirst(fnArgs.tracks)].lang
             answers == fnArgs.server[lang]
             ends == {k \in 1..TrackHosts : answers[k] = NetworkError \/ answers[k] \in UsableAnswers}
             k == CHOOSE k \in ends : \A j \in ends : k <= j
         IN IF ends = {} THEN fnRet.value = Null
            ELSE IF answers[k] = NetworkError THEN fnRet.value = Threw
            ELSE /\ fnRet.value \notin {Null, Threw}
                 /\ fnRet.value.lang = lang
                 /\ fnRet.value.source = "timedtext_list"
                 /\ Len(fnRet.value.segments) = MinSegments + 1
                 /\ StrLen(fnRet.value.transcript) = 208

\* the English track comes second and no host has a usable transcript of it,
\* while the first track has one on both hosts: the call returns null
C35_Witness ==
  /\ ListFetched
  /\ fnArgs.tracks = <<Track(LangFr), Track(LangEnUS)>>
  /\ \A k \in 1..TrackHosts : fnArgs.server[LangFr][k] \in UsableAnswers
  /\ fnArgs.server[LangEnUS] = <<NotFound, [status |-> 200, body |-> BodyTenSegments]>>
  /\ fnRet.value = Null

\* the answers of the servers to the attempts of one call of fetchWithRetry
AttemptAnswers ==
  [1..(MaxRetries + 1) -> {[status |-> st] : st \in {200, 404, 429, 500, 503}} \cup {NetworkError}]

\* no call of fetchWithRetry in the file sends more than three requests
ThreeAttemptsAtMost ==
  \A site \in CallSites, answers \in AttemptAnswers : fetchWithRetry(answers, site).requests <= 3

\* at most six chunk summaries and one synthesis, each strategy tried once
BoundedCalls(r) ==
  /\ Len(genCalls[r]) <= 7
  /\ Cardinality({i \in 1..Len(genCalls[r]) : genCalls[r][i].kind = "chunk"}) <= 6
  /\ Cardinality({i \in 1..Len(genCalls[r]) : genCalls[r][i].kind = "final"}) <= 1
  /\ \A i, j \in 1..Len(trail[r]) : trail[r][i].stage = trail[r][j].stage => i = j

\* once the response is there, the request does nothing but hand it over
NothingAfterResponse(r) ==
  response[r] # Null =>
    /\ cache' = cache
    /\ \/ /\ response'[r] = response[r]
          /\ genCalls'[r] = genCalls[r] /\ trail'[r] = trail[r] /\ pc'[r] = pc[r]
       \/ /\ response'[r] = Null
          /\ genCalls'[r] = <<>> /\ trail'[r] = <<>> /\ pc'[r] = "idle"

\* C36: provided every network call returns in the end, every request ends
\* with exactly one response envelope after a bounded number of upstream
\* calls: at most three HTTP attempts for a fetched URL, at most 7 generator
\* calls (at most 6 chunk summaries and one synthesis); no work of the request
\* goes on after its response.
C36_TerminatesWithOneResponse ==
  /\ ThreeAttemptsAtMost
  /\ \A r \in Requests : (pc[r] # "idle") ~> (response[r] # Null)
  /\ [](\A r \in Requests : BoundedCalls(r) /\ (response[r] # Null <=> pc[r] = "done"))
  /\ [][\A r \in Requests : NothingAfterResponse(r)]_vars

\* a request answered with notes after six chunk summaries and the synthesis
C36_Witness ==
  \E r \in Requests :
    /\ pc[r] = "done" /\ response[r] # Null /\ response[r].success
    /\ Len(genCalls[r]) = 7
    /\ genCalls[r][7].kind = "final"

\* C37: every row the resolver has written to the cache holds a usable
\* transcript (more than 10 segments and more than 200 characters) and names
\* the strategy that fetched it (timedtext, timedtext_list, watch or
\* innertube), never cache or override; so, the cache being empty at first,
\* every cache hit returns a result of more than 10 segments.
C37_CachedTranscriptsAreFetchedOnes ==
  /\ \A row \in cache :
       /\ Len(row.segments) > 10
       /\ StrLen(row.transcript) > 200
       /\ row.source \in {"timedtext", "timedtext_list", "watch", "innertube"}
  /\ \A r \in Requests :
       (result[r] # Null /\ result[r].usedCache) => Len(result[r].segments) > 10

\* a request served from a row that an earlier request fetched through the
\* internal API
C37_Witness ==
  \E r \in Requests :
    /\ result[r] # Null /\ result[r].usedCache /\ result[r].source = "cache"
    /\ \E row \in cache : row.video_id = url[r].videoId /\ row.source = "innertube"

\* the lookup failed: a thrown network error, a status outside 2xx (the last
\* response of exhausted retries included) or a body that is not JSON
LookupFailed(res) ==
  \/ res = NetworkError
  \/ res.status < 200 \/ res.status > 299
  \/ ~res.data.parsed

\* C38: a failure of the title lookup (status not OK, retries exhausted,
\* network error thrown, body unparseable) never changes the outcome of the
\* request: the title is then "YouTube Video", and the handler goes on to the
\* resolver as after a successful lookup, without a response, a cache access
\* or a generator call of its own.
C38_TitleLookupNeverFails ==
  /\ [](\A res \in OEmbedResponses :
          LookupFailed(res) => getVideoTitleViaOEmbed(res) = "YouTube Video")
  /\ [](\A r \in Requests :
          /\ title[r] \in {"", "YouTube Video", "Fetched title"}
          /\ pc[r] \notin {"idle", "title", "done"} => title[r] # "")
  /\ [][\A r \in Requests :
          (pc[r] = "title" /\ pc'[r] # "title") =>
            /\ pc'[r] = "override"
            /\ response'[r] = Null
            /\ cache' = cache
            /\ genCalls'[r] = <<>> /\ trail'[r] = <<>>]_vars

\* notes delivered for a request whose title is the fallback
C38_Witness ==
  \E r \in Requests :
    /\ title[r] = "YouTube Video"
    /\ response[r] # Null /\ response[r].success
    /\ Len(genCalls[r]) > 0

\* a call of formatTimestamp that has returned
Formatted ==
  fnArgs # Null /\ fnArgs.fn = "formatTimestamp" /\ fnRet # Null

\* the returned string, character by character
FormattedText == [i \in 1..StrLen(fnRet.value) |-> CharAt(fnRet.value, i)]

\* the fields of a text between its colons, in order
FieldsOf(text) ==
  LET colons == {i \in 1..Len(text) : text[i] = ":"}
      cuts == colons \cup {0, Len(text) + 1}
      starts == cuts \ {Len(text) + 1}
      nth[k \in 1..Cardinality(starts)] ==
        CHOOSE i \in starts : Cardinality({j \in starts : j < i}) = k - 1
  IN [k \in 1..Cardinality(starts) |->
        SubSeq(text, nth[k] + 1, (CHOOSE j \in cuts : j > nth[k] /\ \A l \in cuts : l > nth[k] => j <= l) - 1)]

\* C39: for a whole number t >= 0 of seconds, formatTimestamp(t) has the form
\* h:mm:ss exactly when t >= 3600 and m:ss otherwise; the minutes of the hour
\* form and the seconds have two digits and are below 60, and
\* 3600*h + 60*m + s = t; 600 gives "10:00".
C39_TimestampForm ==
  Formatted =>
    LET t == fnArgs.seconds
        fields == FieldsOf(FormattedText)
        last == Len(fields)
        h == IF last = 3 THEN NumberOfDigits(fields[1]) ELSE 0
        m == NumberOfDigits(fields[last - 1])
        s == NumberOfDigits(fields[last])
    IN /\ last = (IF t >= 3600 THEN 3 ELSE 2)
       /\ \A k \in 1..last : OnlyDigits(fields[k])
       /\ Len(fields[last]) = 2 /\ s < 60
       /\ last = 3 => (Len(fields[2]) = 2 /\ m < 60)
       /\ 3600 * h + 60 * m + s = t
       /\ t = 600 => fnRet.value = Lit(<<"1", "0", ":", "0", "0">>)

\* one hour, one minute and one second
C39_Witness ==
  /\ Formatted
  /\ fnArgs.seconds = 3661
  /\ fnRet.value = Lit(<<"1", ":", "0", "1", ":", "0", "1">>)

====
